---------------------------- MODULE Spec2Model ----------------------------
(***************************************************************************)
(* A model of the wire-cell-python graph navigation helpers                *)
(* (wirecell/util/wires/graph.py), of the cluster and depo commands of    *)
(* wirecell-img (wirecell/img/__main__.py), of the impact binning of the   *)
(* response plots (wirecell/sigproc/response/plots.py) and of ntier-frames *)
(* (wirecell/plot/__main__.py).                                            *)
(*                                                                         *)
(* Python values are modelled as follows.                                  *)
(*   - A networkx graph is a record [nodes, type, adj, attr]: the node     *)
(*     set, the 'type' attribute of each node, the adjacency of each node  *)
(*     as a sequence (networkx iterates neighbours in insertion order) and *)
(*     the attribute dictionary of each edge that carries one.             *)
(*   - A call either returns or raises: [ok |-> TRUE, val |-> v] or        *)
(*     [ok |-> FALSE, exc |-> "<exception class>"].                        *)
(*   - Python's None is the node id None, never a node of a graph.         *)
(***************************************************************************)
EXTENDS Integers, Sequences, FiniteSets, TLC

VARIABLES
    G,        \* the connectivity graph handed to the graph.py functions
    call,     \* the last graph.py call made: [op, node, typename, radius, path]
    result,   \* what that call returned or raised
    blob,     \* the blob payload handed to the sampling function
    scall,    \* the last sampling call: [sampling, density]
    pts,      \* the SampledPoints it returned, or what it raised
    file,     \* the node payloads of the cluster graph as stored in its file
    heap,     \* the payload objects allocated so far, by address
    gr0,      \* the loaded cluster graph: its nodes' addresses and its edges
    gr,       \* the graph returned by the last undrift of gr0
    dcall,    \* the (speed, t0) of that undrift
    ncalls,   \* how many times gr0 has been undrifted
    cmd,      \* the command line of a conversion command: its name and options
    batch,    \* the graphs (for bee-blobs: the files) it is to convert, in order
    ntaken,   \* how many of them its loop has taken up so far
    status,   \* "running", "done" (exit status 0), "exit-1", or the exception
              \* class that ended the run
    outputs,  \* the items whose output (file or page) exists
    log,      \* the messages printed so far, each with the item it is about
    dat,      \* the Bee dictionary bee-blobs accumulates
    json,     \* the Bee dictionary written to the output file
    pdepos,   \* paraview-depos: the depos loaded from the depo file
    popts,    \* its options: the speed, if one is given, and t0
    ugrid,    \* the depos it hands to the point converter
    fp,       \* transform-depos: the depo sets of the input file, by index
    topts,    \* its options: forward, rotate, locate, move
    locate,   \* what its name "locate" is bound to
    move,     \* what its name "move" is bound to
    nsets,    \* how many indices its loop has taken up so far
    out_count,  \* the number the next output entries are named with
    zf,       \* the entries written to the output archive, in order
    tstatus,  \* "running", "done", or the exception class that ended it
    ilin,     \* the impact bin edges: [lo, d, nbins]
    pitchpos_in,  \* the pitch position looked up in them
    imps,     \* what impact_linspace_index returned or raised
    gcur,     \* the rows of currents get_current filled for a path, or what
              \* it raised
    plane,    \* a plane response: the pitch positions of its paths, in file
              \* order, and the reflect argument of get_current
    npaths,   \* how many paths the loop of get_current has taken up so far
    currents, \* for each row of the currents array, how many paths filled it
    readers,  \* ntier-frames: the keys of each input frame file, in file order
    nread,    \* how many readers its first loop has taken up so far
    name,     \* what its name "name" is bound to
    tiers,    \* the tier names it collected, one per reader
    idents,   \* the frame identifiers it is to plot: a set while the readers
              \* are gone through, then the sorted list
    nplot,    \* how many (ident, reader) turns of its plot loop are over
    pages,    \* the figures saved to the output, in order
    fstatus,  \* "reading", "plotting", "done", or the exception class
    waddrs,   \* to_celltree_wires: the channel address of each wire of the
              \* face, in the order the wires are gone through
    ret       \* the channel numbers of the rows it returned

gvars == <<G, call, result>>

svars == <<blob, scall, pts>>

dvars == <<file, heap, gr0, gr, dcall, ncalls>>

bvars == <<cmd, batch, ntaken, status, outputs, log, dat, json>>

pvars == <<pdepos, popts, ugrid>>

tvars == <<fp, topts, locate, move, nsets, out_count, zf, tstatus>>

ivars == <<ilin, pitchpos_in, imps, gcur, plane, npaths, currents>>

\* the variables of the commands other than the graph queries, the sampling
\* and undrift
fvars == <<readers, nread, name, tiers, idents, nplot, pages, fstatus>>

hvars == <<waddrs, ret>>

ovars == <<bvars, pvars, tvars, ivars, fvars, hvars>>

vars == <<G, call, result, blob, scall, pts, file, heap, gr0, gr, dcall, ncalls,
          cmd, batch, ntaken, status, outputs, log, dat, json,
          pdepos, popts, ugrid, fp, topts, locate, move, nsets, out_count, zf, tstatus,
          ilin, pitchpos_in, imps, gcur, plane, npaths, currents,
          readers, nread, name, tiers, idents, nplot, pages, fstatus, waddrs, ret>>

-----------------------------------------------------------------------------
(* Bounds of the checked input space.                                      *)

\* generic graphs have nodes 1..k for k in 0..MaxNode
MaxNode == 3
\* radius arguments are drawn from 1..MaxRadius
MaxRadius == 2
\* hierarchy graphs lack at most MaxMissing of their links
MaxMissing == 2
\* cluster graphs have at most MaxGrNodes nodes
MaxGrNodes == 2
\* a loaded cluster graph is undrifted at most MaxCalls times
MaxCalls == 2

-----------------------------------------------------------------------------
(* Python values.                                                          *)

None == 0

Return(v) == [ok |-> TRUE, val |-> v]

Raise(e) == [ok |-> FALSE, exc |-> e]

NoCall == [op |-> "none", node |-> None, typename |-> "", radius |-> 0, path |-> <<>>]

NoResult == [ok |-> TRUE, val |-> "none"]

\* the place of a result before the function has been called
NotRun == [ok |-> FALSE, exc |-> "not run"]

\* The exception classes that report a failed graph lookup: networkx's
\* "node is not in the graph" errors and Python's KeyError.
LookupErrors == {"NetworkXError", "NodeNotFound", "KeyError"}

-----------------------------------------------------------------------------
(* The parts of the state a run of one group of functions leaves alone.    *)

NoGraph == [nodes |-> <<>>, edges |-> {}]

GraphIdle ==
    /\ G = [nodes |-> {}, type |-> <<>>, adj |-> <<>>, attr |-> <<>>]
    /\ call = NoCall
    /\ result = NoResult

SampleIdle ==
    /\ blob = [code |-> "none"]
    /\ scall = [sampling |-> "none", density |-> 0]
    /\ pts = NoResult

DriftIdle ==
    /\ file = <<>>
    /\ heap = <<>>
    /\ gr0 = NoGraph
    /\ gr = NoGraph
    /\ dcall = [speed |-> 0, t0 |-> 0]
    /\ ncalls = 0

BatchIdle ==
    /\ cmd = [driver |-> "none"]
    /\ batch = <<>>
    /\ ntaken = 0
    /\ status = "done"
    /\ outputs = {}
    /\ log = <<>>
    /\ dat = <<>>
    /\ json = <<>>

DepoIdle ==
    /\ pdepos = <<>>
    /\ popts = [speed |-> [given |-> FALSE, val |-> 0], t0 |-> 0]
    /\ ugrid = NotRun

TransformIdle ==
    /\ fp = <<>>
    /\ topts = [forward |-> FALSE, rotate |-> <<>>]
    /\ locate = [type |-> "NoneType"]
    /\ move = [type |-> "NoneType"]
    /\ nsets = 0
    /\ out_count = 0
    /\ zf = <<>>
    /\ tstatus = "done"

PlaneIdle ==
    /\ plane = [paths |-> <<>>, reflect |-> FALSE]
    /\ npaths = 0
    /\ currents = <<>>

ImpactIdle ==
    /\ ilin = [lo |-> 0, d |-> 1, nbins |-> 0]
    /\ pitchpos_in = 0
    /\ imps = NotRun
    /\ gcur = NotRun
    /\ PlaneIdle

FramesIdle ==
    /\ readers = <<>>
    /\ nread = 0
    /\ name = [bound |-> FALSE]
    /\ tiers = <<>>
    /\ idents = {}
    /\ nplot = 0
    /\ pages = <<>>
    /\ fstatus = "done"

HashIdle ==
    /\ waddrs = <<>>
    /\ ret = NotRun

OtherIdle ==
    BatchIdle /\ DepoIdle /\ TransformIdle /\ ImpactIdle /\ FramesIdle /\ HashIdle

-----------------------------------------------------------------------------
(* Sets as ordered sequences.                                              *)

RECURSIVE SortedSeq(_, _)
SortedSeq(S, asc) ==
    IF S = {} THEN <<>>
    ELSE LET m == IF asc THEN CHOOSE x \in S : \A y \in S : x <= y
                         ELSE CHOOSE x \in S : \A y \in S : x >= y
         IN  <<m>> \o SortedSeq(S \ {m}, asc)

Range(s) == {s[i] : i \in 1..Len(s)}

-----------------------------------------------------------------------------
(* The networkx operations graph.py uses.                                  *)

\* the edge between a and b
Edge(a, b) == {a, b}

Edges(g) == UNION {{Edge(n, m) : m \in Range(g.adj[n])} : n \in g.nodes}

\* networkx.neighbors(G, n): the neighbours of n in adjacency order; a node
\* that is not in the graph raises NetworkXError.
neighbors(g, n) ==
    IF n \in g.nodes THEN Return(g.adj[n]) ELSE Raise("NetworkXError")

\* the nodes within r hops of the nodes of S (breadth-first, r levels)
RECURSIVE Ball(_, _, _)
Ball(g, S, r) ==
    IF r <= 0 THEN S
    ELSE Ball(g, S \cup UNION {Range(g.adj[n]) : n \in S}, r - 1)

\* networkx.ego_graph(G, n, radius): the subgraph induced by the nodes whose
\* shortest-path distance from n is at most radius, n itself included
\* (center=True is the default); iterating it yields its nodes.  A node that
\* is not in the graph raises NodeNotFound (KeyError in networkx 1.x).
ego_graph(g, n, radius) ==
    IF n \in g.nodes THEN Return(Ball(g, {n}, radius)) ELSE Raise("NodeNotFound")

\* G[a][b][key]: the attribute of an edge; a missing node, edge or key raises
\* KeyError.
EdgeAttr(g, a, b, key) ==
    IF a \notin g.nodes \/ Edge(a, b) \notin Edges(g) THEN Raise("KeyError")
    ELSE IF Edge(a, b) \notin DOMAIN g.attr THEN Raise("KeyError")
    ELSE IF key \notin DOMAIN g.attr[Edge(a, b)] THEN Raise("KeyError")
    ELSE Return(g.attr[Edge(a, b)][key])

-----------------------------------------------------------------------------
(* wirecell/util/wires/graph.py                                            *)

\* neighbors_by_type with a seed that is not in the graph answered by the
\* empty set
neighbors_by_type_lenient(g, seed, typename, radius) ==
    IF seed \notin g.nodes THEN Return({})
    ELSE IF radius = 1 THEN Return({n \in Range(g.adj[seed]) : g.type[n] = typename})
    ELSE Return({n \in Ball(g, {seed}, radius) : g.type[n] = typename})

neighbors_by_type(g, seed, typename, radius) ==
    IF radius = 1
    THEN LET nn == neighbors(g, seed)
         IN  IF ~nn.ok THEN nn
             ELSE Return({n \in Range(nn.val) : g.type[n] = typename})
    ELSE LET eg == ego_graph(g, seed, radius)
         IN  IF ~eg.ok THEN eg
             ELSE Return({n \in eg.val : g.type[n] = typename})

\* neighbors_by_path returning only the nodes the whole path ends on
RECURSIVE neighbors_by_path_ends_only(_, _, _)
neighbors_by_path_ends_only(g, seed, typenamepath) ==
    IF typenamepath = <<>> THEN Return({})
    ELSE LET nn == neighbors_by_type(g, seed, Head(typenamepath), 1)
         IN  IF ~nn.ok THEN nn
             ELSE IF Tail(typenamepath) = <<>> THEN nn
             ELSE Return(UNION {neighbors_by_path_ends_only(g, node, Tail(typenamepath)).val :
                                   node \in nn.val})

\* neighbors_by_path: the neighbours of the seed of the first type of the
\* path, united with what the rest of the path reaches from each of them; an
\* empty path gives the empty set before the graph is looked at
RECURSIVE neighbors_by_path(_, _, _)
neighbors_by_path(g, seed, typenamepath) ==
    IF typenamepath = <<>> THEN Return({})
    ELSE LET nn == neighbors_by_type(g, seed, Head(typenamepath), 1)
         IN  IF ~nn.ok THEN nn
             ELSE Return(nn.val \cup UNION {neighbors_by_path(g, node, Tail(typenamepath)).val :
                                               node \in nn.val})

\* the graph after nn.update(nnn), were nn the graph's own adjacency of the
\* seed: the nodes of nnn become neighbours of the seed
graph_after_update_aliased(g, seed, nnn) ==
    [g EXCEPT !.adj[seed] = @ \o SortedSeq(nnn \ Range(@), TRUE)]

\* the graph after nn.update(nnn) in neighbors_by_path, the one statement of
\* the four queries that changes an object: nn is the set neighbors_by_type
\* built, an object of its own, so the graph is as it was
graph_after_update(g, seed, nnn) == g

\* FirstOfType giving up after the first element
FirstOfType_first_only(g, s, parent_type) ==
    IF s = <<>> THEN None
    ELSE IF g.type[Head(s)] = parent_type THEN Head(s)
    ELSE None

\* FirstOfType keeping the last element of the type instead of the first
RECURSIVE FirstOfType_last(_, _, _)
FirstOfType_last(g, s, parent_type) ==
    IF s = <<>> THEN None
    ELSE LET later == FirstOfType_last(g, Tail(s), parent_type)
         IN  IF later # None THEN later
             ELSE IF g.type[Head(s)] = parent_type THEN Head(s)
             ELSE None

\* the first element of the sequence s of the given type, or None
RECURSIVE FirstOfType(_, _, _)
FirstOfType(g, s, parent_type) ==
    IF s = <<>> THEN None
    ELSE IF g.type[Head(s)] = parent_type THEN Head(s)
    ELSE FirstOfType(g, Tail(s), parent_type)

parent(g, child, parent_type) ==
    LET nn == neighbors(g, child)
    IN  IF ~nn.ok THEN nn ELSE Return(FirstOfType(g, nn.val, parent_type))

\* channel_address with the slot and the connector read from each other's edge
channel_address_swapped(g, wire) ==
    LET conductor == parent(g, wire, "conductor") IN
    IF ~conductor.ok THEN conductor ELSE
    LET channel == parent(g, conductor.val, "channel") IN
    IF ~channel.ok THEN channel ELSE
    LET chip == parent(g, channel.val, "chip") IN
    IF ~chip.ok THEN chip ELSE
    LET board == parent(g, chip.val, "board") IN
    IF ~board.ok THEN board ELSE
    LET wib == parent(g, board.val, "wib") IN
    IF ~wib.ok THEN wib ELSE
    LET apa == parent(g, wib.val, "apa") IN
    IF ~apa.ok THEN apa ELSE
    LET islot == EdgeAttr(g, apa.val, wib.val, "slot") IN
    IF ~islot.ok THEN islot ELSE
    LET iconn == EdgeAttr(g, wib.val, board.val, "connector") IN
    IF ~iconn.ok THEN iconn ELSE
    LET ichip == EdgeAttr(g, board.val, chip.val, "spot") IN
    IF ~ichip.ok THEN ichip ELSE
    LET iaddr == EdgeAttr(g, chip.val, channel.val, "address") IN
    IF ~iaddr.ok THEN iaddr ELSE
    Return(<<islot.val, iconn.val, ichip.val, iaddr.val>>)

channel_address(g, wire) ==
    LET conductor == parent(g, wire, "conductor") IN
    IF ~conductor.ok THEN conductor ELSE
    LET channel == parent(g, conductor.val, "channel") IN
    IF ~channel.ok THEN channel ELSE
    LET chip == parent(g, channel.val, "chip") IN
    IF ~chip.ok THEN chip ELSE
    LET board == parent(g, chip.val, "board") IN
    IF ~board.ok THEN board ELSE
    LET box == parent(g, board.val, "face") IN
    IF ~box.ok THEN box ELSE
    LET wib == parent(g, board.val, "wib") IN
    IF ~wib.ok THEN wib ELSE
    LET apa == parent(g, wib.val, "apa") IN
    IF ~apa.ok THEN apa ELSE
    LET islot == EdgeAttr(g, apa.val, wib.val, "slot") IN
    IF ~islot.ok THEN islot ELSE
    LET iconn == EdgeAttr(g, wib.val, board.val, "connector") IN
    IF ~iconn.ok THEN iconn ELSE
    LET ichip == EdgeAttr(g, board.val, chip.val, "spot") IN
    IF ~ichip.ok THEN ichip ELSE
    LET iaddr == EdgeAttr(g, chip.val, channel.val, "address") IN
    IF ~iaddr.ok THEN iaddr ELSE
    Return(<<iconn.val, islot.val, ichip.val, iaddr.val>>)

-----------------------------------------------------------------------------
(* The graphs the functions are applied to.                                *)

\* a networkx graph built by adding the given edges in ascending (asc) or
\* descending order of node id
MkGraph(nodes, type, edges, attr, asc) ==
    [nodes |-> nodes,
     type  |-> type,
     adj   |-> [n \in nodes |-> SortedSeq({m \in nodes : m # n /\ Edge(n, m) \in edges}, asc)],
     attr  |-> attr]

GenericTypes == {"wire", "conductor"}

Pairs(nodes) == {Edge(a, b) : a, b \in nodes} \ {{a} : a \in nodes}

\* every graph on the nodes 1..k, k <= MaxNode, typed by GenericTypes, with
\* no edge attributes
GenericGraphs ==
    UNION {
        {MkGraph(1..k, type, edges, [e \in {} |-> 0], asc) :
            type \in [1..k -> GenericTypes],
            edges \in SUBSET Pairs(1..k),
            asc \in BOOLEAN}
        : k \in 0..MaxNode}

\* the electronics hierarchy of one wire: one node of each type
HierNode == [wire |-> 1, conductor |-> 2, channel |-> 3, chip |-> 4,
             board |-> 5, wib |-> 6, apa |-> 7, face |-> 8]

HierTypes == DOMAIN HierNode

HierNodes == {HierNode[t] : t \in HierTypes}

HierType == [n \in HierNodes |-> CHOOSE t \in HierTypes : HierNode[t] = n]

\* the links wire-conductor-channel-chip-board-wib-apa, and board-face
ChainEdges ==
    {Edge(HierNode.wire, HierNode.conductor), Edge(HierNode.conductor, HierNode.channel),
     Edge(HierNode.channel, HierNode.chip), Edge(HierNode.chip, HierNode.board),
     Edge(HierNode.board, HierNode.wib), Edge(HierNode.wib, HierNode.apa)}

FaceEdge == Edge(HierNode.board, HierNode.face)

\* the fixture values slot=2, connector=1, spot=0, address=5, and another
\* assignment
FixtureAttrs == [slot |-> 2, connector |-> 1, spot |-> 0, address |-> 5]

AttrChoices == {FixtureAttrs, [slot |-> 0, connector |-> 3, spot |-> 4, address |-> 1]}

HierAttr(edges, a) ==
    LET all == (Edge(HierNode.apa, HierNode.wib) :> [slot |-> a.slot])
            @@ (Edge(HierNode.wib, HierNode.board) :> [connector |-> a.connector])
            @@ (Edge(HierNode.board, HierNode.chip) :> [spot |-> a.spot])
            @@ (Edge(HierNode.chip, HierNode.channel) :> [address |-> a.address])
    IN  [e \in edges \cap DOMAIN all |-> all[e]]

\* the hierarchy with some of its links missing
HierarchyGraphs ==
    {MkGraph(HierNodes, HierType, (ChainEdges \cup {FaceEdge}) \ missing,
             HierAttr((ChainEdges \cup {FaceEdge}) \ missing, a), TRUE) :
        missing \in {m \in SUBSET (ChainEdges \cup {FaceEdge}) : Cardinality(m) <= MaxMissing},
        a \in AttrChoices}

GraphInputs == GenericGraphs \cup HierarchyGraphs

\* the nodes of the graph and one that is not in it
Seeds(g) == g.nodes \cup {Cardinality(g.nodes) + 1}

TypeNames(g) == {g.type[n] : n \in g.nodes} \cup GenericTypes

\* the type name path of wires_in_chip, chip to wire
ChipPath == <<"channel", "conductor", "wire">>

\* the stretches of ChipPath, the empty one included
TypeNamePaths ==
    {SubSeq(ChipPath, i, j) : i \in 1..(Len(ChipPath) + 1), j \in 0..Len(ChipPath)}

-----------------------------------------------------------------------------
(* Calls of the graph.py functions on a fixed graph.                       *)

InitGraph ==
    /\ G \in GraphInputs
    /\ call = NoCall
    /\ result = NoResult
    /\ SampleIdle
    /\ DriftIdle
    /\ OtherIdle

CallNeighborsByType ==
    \E seed \in Seeds(G), typename \in TypeNames(G), radius \in 1..MaxRadius :
        /\ call' = [op |-> "neighbors_by_type", node |-> seed,
                    typename |-> typename, radius |-> radius, path |-> <<>>]
        /\ result' = neighbors_by_type(G, seed, typename, radius)
        /\ UNCHANGED <<G, svars, dvars, ovars>>

CallNeighborsByPath ==
    \E seed \in Seeds(G), typenamepath \in TypeNamePaths :
        LET nn == neighbors_by_path(G, seed, typenamepath) IN
        /\ call' = [op |-> "neighbors_by_path", node |-> seed,
                    typename |-> "", radius |-> 0, path |-> typenamepath]
        /\ result' = nn
        /\ G' = IF nn.ok /\ typenamepath # <<>>
                THEN graph_after_update(G, seed, nn.val)
                ELSE G
        /\ UNCHANGED <<svars, dvars, ovars>>

CallParent ==
    \E child \in Seeds(G), parent_type \in TypeNames(G) :
        /\ call' = [op |-> "parent", node |-> child,
                    typename |-> parent_type, radius |-> 0, path |-> <<>>]
        /\ result' = parent(G, child, parent_type)
        /\ UNCHANGED <<G, svars, dvars, ovars>>

CallChannelAddress ==
    \E wire \in Seeds(G) :
        /\ call' = [op |-> "channel_address", node |-> wire,
                    typename |-> "", radius |-> 0, path |-> <<>>]
        /\ result' = channel_address(G, wire)
        /\ UNCHANGED <<G, svars, dvars, ovars>>

NextGraph ==
    \/ CallNeighborsByType
    \/ CallParent
    \/ CallChannelAddress

SpecGraph == InitGraph /\ [][NextGraph]_vars

-----------------------------------------------------------------------------
(* Any sequence of the four queries of graph.py on one graph.              *)

\* the graphs built in ascending order whose edge attributes, where there
\* are any, are the fixture's
QueryGraphs ==
    {g \in GraphInputs :
        /\ \A n \in g.nodes : g.adj[n] = SortedSeq(Range(g.adj[n]), TRUE)
        /\ g.attr = HierAttr(Edges(g), FixtureAttrs)}

InitQueries ==
    /\ G \in QueryGraphs
    /\ call = NoCall
    /\ result = NoResult
    /\ SampleIdle
    /\ DriftIdle
    /\ OtherIdle

NextQueries ==
    \/ CallNeighborsByType
    \/ CallNeighborsByPath
    \/ CallParent
    \/ CallChannelAddress

SpecQueries == InitQueries /\ [][NextQueries]_vars

\* neighbors_by_path alone, called any number of times on one graph
NextPaths == CallNeighborsByPath

SpecPaths == InitQueries /\ [][NextPaths]_vars

-----------------------------------------------------------------------------
(* Hop distance and the parent chain, stated on the edge set alone.        *)

Linked(g, a, b) == Edge(a, b) \in Edges(g) /\ a # b

\* the end nodes of the walks of exactly k edges from s
RECURSIVE Walk(_, _, _)
Walk(g, s, k) ==
    IF k = 0 THEN {s}
    ELSE {n \in g.nodes : \E m \in Walk(g, s, k - 1) : Linked(g, m, n)}

\* the nodes at hop distance lo..hi from s
AtHops(g, s, lo, hi) ==
    {n \in g.nodes : \E k \in lo..hi :
        /\ n \in Walk(g, s, k)
        /\ \A j \in 0..(k - 1) : n \notin Walk(g, s, j)}

\* the neighbours of n that have type t
Up(g, n, t) == {m \in g.nodes : Linked(g, n, m) /\ g.type[m] = t}

\* wire has a conductor, that a channel, that a chip, that a board, that a
\* wib, that an apa
ChainExists(g, wire) ==
    \E cd \in Up(g, wire, "conductor") : \E ch \in Up(g, cd, "channel") :
    \E cp \in Up(g, ch, "chip") : \E bd \in Up(g, cp, "board") :
    \E wb \in Up(g, bd, "wib") : Up(g, wb, "apa") # {}

\* the same, with a face beside the board as well
ChainWithFaceExists(g, wire) ==
    \E cd \in Up(g, wire, "conductor") : \E ch \in Up(g, cd, "channel") :
    \E cp \in Up(g, ch, "chip") : \E bd \in Up(g, cp, "board") :
    \E wb \in Up(g, bd, "wib") : Up(g, wb, "apa") # {} /\ Up(g, bd, "face") # {}

\* the hierarchy of HierNode with the chain wire..apa complete
ChainIntact(g) ==
    g.nodes = HierNodes /\ g.type = HierType /\ ChainEdges \subseteq Edges(g)

WellFormedHierarchy(g) == ChainIntact(g) /\ FaceEdge \in Edges(g)

IsWire(g, n) == n \in g.nodes /\ g.type[n] = "wire"

-----------------------------------------------------------------------------
(* Claims about graph.py, checked under SpecGraph.                         *)

\* C7: on a well-formed hierarchy wire-conductor-channel-chip-board-wib-apa
\* with the board linked to a face, channel_address(G, wire) returns
\* (connector of wib-board, slot of apa-wib, spot of board-chip, address of
\* chip-channel); with slot=2, connector=1, spot=0, address=5 that is
\* (1, 2, 0, 5).
C7_ChannelAddressTuple ==
    (call.op = "channel_address" /\ call.node = HierNode.wire /\ WellFormedHierarchy(G)) =>
        /\ result = Return(<<G.attr[Edge(HierNode.wib, HierNode.board)].connector,
                             G.attr[Edge(HierNode.apa, HierNode.wib)].slot,
                             G.attr[Edge(HierNode.board, HierNode.chip)].spot,
                             G.attr[Edge(HierNode.chip, HierNode.channel)].address>>)
        /\ (G.attr = HierAttr(Edges(G), FixtureAttrs) => result = Return(<<1, 2, 0, 5>>))

C7_Witness ==
    /\ call.op = "channel_address" /\ call.node = HierNode.wire
    /\ WellFormedHierarchy(G)
    /\ G.attr = HierAttr(Edges(G), FixtureAttrs)
    /\ result = Return(<<1, 2, 0, 5>>)

\* C8 as stated: channel_address raises a lookup error whenever a parent of
\* the chain wire->conductor->channel->chip->board->{wib, face}->apa is
\* absent, the face beside the board included.
C8_FailsOnAnyAbsentParentOrFace ==
    (call.op = "channel_address" /\ IsWire(G, call.node)
        /\ ~ChainWithFaceExists(G, call.node)) =>
        (~result.ok /\ result.exc \in LookupErrors)

\* C8 as amended: channel_address raises a lookup error whenever a parent of
\* the chain wire->conductor->channel->chip->board->wib->apa is absent, and
\* never returns a tuple then; a board with no face neighbour does not make
\* it fail: with the chain intact it returns the address tuple.
C8_FailsOnAbsentParent ==
    call.op = "channel_address" =>
        /\ (IsWire(G, call.node) /\ ~ChainExists(G, call.node)) =>
               (~result.ok /\ result.exc \in LookupErrors)
        /\ (call.node = HierNode.wire /\ ChainIntact(G)) =>
               (result.ok /\ Len(result.val) = 4)

\* only the apa is missing above the wib, and the call raised
C8_Witness ==
    /\ call.op = "channel_address" /\ call.node = HierNode.wire
    /\ G.nodes = HierNodes
    /\ Edges(G) = (ChainEdges \cup {FaceEdge}) \ {Edge(HierNode.wib, HierNode.apa)}
    /\ ~ChainExists(G, call.node)
    /\ ~result.ok /\ result.exc \in LookupErrors

\* C9 as stated: for a node of the graph and a radius >= 1,
\* neighbors_by_type returns exactly the nodes at hop distance 1..radius
\* whose type is the requested one.
C9_ExactlyWithinRadius ==
    (call.op = "neighbors_by_type" /\ call.node \in G.nodes /\ call.radius >= 1) =>
        result = Return({n \in AtHops(G, call.node, 1, call.radius) :
                            G.type[n] = call.typename})

\* C10: neighbors_by_type with a seed that is not in the graph raises a
\* lookup error, for every radius, and returns no set.
C10_MissingSeedRaises ==
    (call.op = "neighbors_by_type" /\ call.node \notin G.nodes) =>
        (~result.ok /\ result.exc \in LookupErrors)

C10_Witness ==
    /\ call.op = "neighbors_by_type" /\ call.node \notin G.nodes
    /\ call.radius > 1 /\ G.nodes # {}
    /\ ~result.ok

-----------------------------------------------------------------------------
(* Drift transform: converter.undrift, as the conversion commands call it. *)
(* A node payload is a dictionary (a record); a cluster graph holds, for   *)
(* each node, the address of its payload object in the heap.               *)

\* the dictionary d with d[key] = val set
SetItem(d, key, val) ==
    [k \in DOMAIN d \cup {key} |-> IF k = key THEN val ELSE d[k]]

\* the payload of node i of graph cg
Payload(h, cg, i) == h[cg.nodes[i]]

\* undrift writing x into the payload objects of the graph it was given and
\* returning that graph
undrift_inplace(h, cg, speed, t0) ==
    [heap |-> [a \in 1..Len(h) |->
                  IF a \in Range(cg.nodes) /\ "t" \in DOMAIN h[a]
                  THEN SetItem(h[a], "x", speed * (h[a].t + t0))
                  ELSE h[a]],
     gr   |-> cg]

\* converter.undrift(graph, speed, t0): a new graph with the same nodes and
\* edges; every payload is copied into a new object, and a copy that carries
\* t gets x = speed*(t + t0).
undrift(h, cg, speed, t0) ==
    [heap |-> h \o [i \in 1..Len(cg.nodes) |->
                       IF "t" \in DOMAIN Payload(h, cg, i)
                       THEN SetItem(Payload(h, cg, i), "x",
                                    speed * (Payload(h, cg, i).t + t0))
                       ELSE Payload(h, cg, i)],
     gr   |-> [nodes |-> [i \in 1..Len(cg.nodes) |-> Len(h) + i],
               edges |-> cg.edges]]

\* do_one with speed and t0 handed over in each other's place
do_one_undrift_swapped(h, cg, speed, t0) == undrift(h, cg, t0, speed)

\* gr = converter.undrift(gr, speed, t0)
do_one_undrift(h, cg, speed, t0) == undrift(h, cg, speed, t0)

\* the times, stale coordinates, speeds and time offsets tried
TVals == {0, 1, 2}

Speeds == {-1, 0, 2}

T0s == {0, 3}

\* slices and blobs carry a time, wires do not; a payload may hold an x
\* from before
PayloadInputs ==
    {[code |-> "s", t |-> t] : t \in TVals}
    \cup {[code |-> "b", t |-> 1, x |-> 7], [code |-> "w", x |-> 7]}

\* the cluster graphs of at most MaxGrNodes nodes, as node payloads and edges
FileInputs ==
    UNION {[nodes : [1..k -> PayloadInputs], edges : SUBSET Pairs(1..k)] : k \in 0..MaxGrNodes}

\* tap.load: the graph of a file, each payload a fresh object
InitDrift ==
    /\ \E f \in FileInputs :
          /\ file = f.nodes
          /\ heap = f.nodes
          /\ gr0 = [nodes |-> [i \in 1..Len(f.nodes) |-> i], edges |-> f.edges]
    /\ gr = NoGraph
    /\ dcall = [speed |-> 0, t0 |-> 0]
    /\ ncalls = 0
    /\ GraphIdle
    /\ SampleIdle
    /\ OtherIdle

Undrift ==
    /\ ncalls < MaxCalls
    /\ \E speed \in Speeds, t0 \in T0s :
          LET r == do_one_undrift(heap, gr0, speed, t0)
          IN  /\ heap' = r.heap
              /\ gr' = r.gr
              /\ dcall' = [speed |-> speed, t0 |-> t0]
    /\ ncalls' = ncalls + 1
    /\ UNCHANGED <<file, gr0, gvars, svars, ovars>>

NextDrift == Undrift

SpecDrift == InitDrift /\ [][NextDrift]_vars

\* node i of the loaded graph carries a time
CarriesT(i) == "t" \in DOMAIN file[i]

-----------------------------------------------------------------------------
(* Claims about the drift transform, checked under SpecDrift.              *)

\* C4: the graph undrift(graph, speed, t0) returns has the nodes and edges of
\* graph, and every node that carries a time t has x = speed*(t + t0); with
\* t0 = 0 and t = 0 on every node, x = 0 on every node.
C4_UndriftSetsX ==
    ncalls > 0 =>
        /\ Len(gr.nodes) = Len(file) /\ gr.edges = gr0.edges
        /\ \A i \in 1..Len(file) : CarriesT(i) =>
               /\ "x" \in DOMAIN Payload(heap, gr, i)
               /\ Payload(heap, gr, i).x = dcall.speed * (file[i].t + dcall.t0)
        /\ (dcall.t0 = 0 /\ \A i \in 1..Len(file) : CarriesT(i) /\ file[i].t = 0) =>
               \A i \in 1..Len(file) : Payload(heap, gr, i).x = 0

C4_Witness ==
    /\ ncalls > 0 /\ dcall.speed = 2 /\ dcall.t0 = 3
    /\ \E i \in 1..Len(file) :
          CarriesT(i) /\ file[i].t = 2 /\ Payload(heap, gr, i).x = 10

\* C5: undrift does not mutate its input: after it returns, every payload of
\* the graph it was given is as loaded from the file, the graph has the nodes
\* and edges it had, the result shares no payload object with it, and
\* undrifting it again with any parameters gives x = speed*(t + t0) for the
\* times in the file.
C5_UndriftLeavesInput ==
    ncalls > 0 =>
        /\ Len(gr0.nodes) = Len(file)
        /\ \A i \in 1..Len(file) : Payload(heap, gr0, i) = file[i]
        /\ Range(gr.nodes) \cap Range(gr0.nodes) = {}
        /\ \A speed \in Speeds, t0 \in T0s :
               LET r == undrift(heap, gr0, speed, t0)
               IN  \A i \in 1..Len(file) : CarriesT(i) =>
                       Payload(r.heap, r.gr, i).x = speed * (file[i].t + t0)

\* the graph was undrifted twice, with a node whose x is not the stale one
C5_Witness ==
    /\ ncalls = 2
    /\ \E i \in 1..Len(file) :
          /\ CarriesT(i) /\ "x" \in DOMAIN file[i]
          /\ Payload(heap, gr, i).x # file[i].x
          /\ Payload(heap, gr0, i) = file[i]

\* C6: with speed = 0 every node that carries a time gets the same x, which
\* does not depend on the node's t: it is 0*(t + t0) = 0 for each t0.
C6_ZeroSpeed ==
    (ncalls > 0 /\ dcall.speed = 0) =>
        \A i \in 1..Len(file) : CarriesT(i) =>
            /\ Payload(heap, gr, i).x = 0
            /\ \A j \in 1..Len(file) : CarriesT(j) =>
                   Payload(heap, gr, j).x = Payload(heap, gr, i).x

C6_Witness ==
    /\ ncalls > 0 /\ dcall.speed = 0 /\ dcall.t0 = 3
    /\ \E i, j \in 1..Len(file) :
          /\ CarriesT(i) /\ CarriesT(j) /\ file[i].t # file[j].t
          /\ Payload(heap, gr, i).x = Payload(heap, gr, j).x

-----------------------------------------------------------------------------
(* Rational numbers <<numerator, denominator>>, denominator > 0: the       *)
(* values of Python's float divisions.                                     *)

Rat(n, d) == <<n, d>>

RatEq(a, b) == a[1] * b[2] = b[1] * a[2]

RatAdd(a, b) == <<a[1] * b[2] + b[1] * a[2], a[2] * b[2]>>

RatMul(a, b) == <<a[1] * b[1], a[2] * b[2]>>

Max(a, b) == IF a >= b THEN a ELSE b

\* round(): the integer nearest to a rational >= 0, a tie going to the even
\* one
Round(a) ==
    LET lo  == a[1] \div a[2]
        rem == a[1] % a[2]
    IN  IF 2 * rem < a[2] THEN lo
        ELSE IF 2 * rem > a[2] THEN lo + 1
        ELSE IF lo % 2 = 0 THEN lo ELSE lo + 1

-----------------------------------------------------------------------------
(* Blob sampling: converter.blob_center and converter.blob_uniform_sample, *)
(* as bee_blobs selects and parameterises them.                            *)

\* wirecell.units.cm, in the system of units whose length unit is the mm
cm == 10

\* blob_center(b): one point at the centroid of the polytope, carrying the
\* whole value; a malformed polytope fails with GeometryError.
blob_center(b) ==
    IF ~b.poly.valid THEN Raise("GeometryError")
    ELSE Return(<<[x |-> b.poly.centroid[1], y |-> b.poly.centroid[2],
                   z |-> b.poly.centroid[3], q |-> Rat(b.value, 1)]>>)

\* the number of points of a uniform sample
UniformCount(b, density) == Max(1, Round(RatMul(density, Rat(b.poly.volume, 1))))

\* blob_uniform_sample giving every point the whole value
blob_uniform_sample_undivided(b, density, draw) ==
    IF ~b.poly.valid THEN Raise("GeometryError")
    ELSE Return([i \in 1..UniformCount(b, density) |->
                    [x |-> draw[i][1], y |-> draw[i][2], z |-> draw[i][3],
                     q |-> Rat(b.value, 1)]])

\* blob_uniform_sample(b, density): n = max(1, round(density*volume)) points
\* drawn inside the polytope (draw[i] is the i-th point drawn), each
\* carrying value/n; a malformed polytope fails with GeometryError.
blob_uniform_sample(b, density, draw) ==
    IF ~b.poly.valid THEN Raise("GeometryError")
    ELSE LET n == UniformCount(b, density)
         IN  Return([i \in 1..n |->
                        [x |-> draw[i][1], y |-> draw[i][2], z |-> draw[i][3],
                         q |-> Rat(b.value, n)]])

\* the factor 1/(units.cm**3) taken in integer arithmetic: 0
density_truncated(density) == Rat(density * (1 \div (cm * cm * cm)), 1)

\* density *= 1.0/(units.cm**3): points per cc to points per unit volume
density_per_volume(density) == Rat(density, cm * cm * cm)

\* the sampling option ignored, the uniform sample always taken
sampling_func_always_uniform(sampling, density, b, draw) ==
    blob_uniform_sample(b, density, draw)

\* sampling_func = dict(center = ..., uniform = lambda b: ...)[sampling],
\* applied to b
sampling_func(sampling, density, b, draw) ==
    IF sampling = "center" THEN blob_center(b)
    ELSE blob_uniform_sample(b, density, draw)

\* the charges, volumes (in mm^3) and densities (in points per cc) tried
Values == {-3, 0, 6, 7}

Volumes == {0, 1, 500, 1500, 2500}

Densities == {1, 2}

Samplings == {"center", "uniform"}

\* the centroid of the polytope tried, and the points inside it that a draw
\* can give
Centroid == <<10, 20, 30>>

Inside == {Centroid, <<11, 19, 32>>}

BlobInputs ==
    [code : {"b"}, value : Values,
     poly : [valid : BOOLEAN, centroid : {Centroid}, volume : Volumes, points : {Inside}]]

InitSample ==
    /\ blob \in BlobInputs
    /\ scall = [sampling |-> "none", density |-> 0]
    /\ pts = NoResult
    /\ GraphIdle
    /\ DriftIdle
    /\ OtherIdle

\* one call of sampling_func on the blob, as blobpoints makes it
Sample ==
    /\ \E sampling \in Samplings, density \in Densities :
       \E draw \in [1..UniformCount(blob, density_per_volume(density)) -> blob.poly.points] :
          /\ scall' = [sampling |-> sampling, density |-> density]
          /\ pts' = sampling_func(sampling, density_per_volume(density), blob, draw)
    /\ UNCHANGED <<blob, gvars, dvars, ovars>>

NextSample == Sample

SpecSample == InitSample /\ [][NextSample]_vars

RECURSIVE SumQ(_)
SumQ(points) ==
    IF points = <<>> THEN Rat(0, 1) ELSE RatAdd(Head(points).q, SumQ(Tail(points)))

Sampled == scall.sampling \in Samplings

\* the number of points the claim gives for density d per cc and volume V:
\* max(1, round(d*V)) with d*V = density*volume/cm^3
ClaimedCount ==
    LET lo  == (scall.density * blob.poly.volume) \div 1000
        rem == (scall.density * blob.poly.volume) % 1000
        rnd == IF rem < 500 THEN lo
               ELSE IF rem > 500 THEN lo + 1
               ELSE IF lo % 2 = 0 THEN lo ELSE lo + 1
    IN  IF rnd < 1 THEN 1 ELSE rnd

-----------------------------------------------------------------------------
(* Claims about blob sampling, checked under SpecSample.                   *)

\* C1: charge conservation: for every blob with a well-formed polytope and
\* for both sampling policies, at each density, the q of the points returned
\* sum to the blob's value.
C1_ChargeConserved ==
    (Sampled /\ blob.poly.valid) =>
        (pts.ok /\ RatEq(SumQ(pts.val), Rat(blob.value, 1)))

\* a uniform sample of two or more points whose share is not a whole number
C1_Witness ==
    /\ scall.sampling = "uniform" /\ pts.ok
    /\ Len(pts.val) = 2 /\ blob.value = 7
    /\ RatEq(SumQ(pts.val), Rat(7, 1))

\* C2: uniform sampling with density d of a blob of volume V returns
\* n = max(1, round(d*V)) points, each with q = value/n; a blob of zero or
\* near-zero volume yields one point.
C2_UniformCount ==
    (scall.sampling = "uniform" /\ blob.poly.valid) =>
        /\ pts.ok
        /\ Len(pts.val) = ClaimedCount
        /\ \A i \in 1..Len(pts.val) :
               /\ RatEq(pts.val[i].q, Rat(blob.value, ClaimedCount))
               /\ <<pts.val[i].x, pts.val[i].y, pts.val[i].z>> \in blob.poly.points
        /\ (blob.poly.volume \in {0, 1} => Len(pts.val) = 1)

C2_Witness ==
    /\ scall.sampling = "uniform" /\ scall.density = 2 /\ pts.ok
    /\ blob.poly.volume = 2500 /\ Len(pts.val) = 5

\* C3: center sampling returns, for every blob with a well-formed polytope,
\* exactly one point, at the centroid of the polytope, with q the blob's
\* whole value.
C3_CenterOnePoint ==
    (scall.sampling = "center" /\ blob.poly.valid) =>
        /\ pts.ok
        /\ Len(pts.val) = 1
        /\ <<pts.val[1].x, pts.val[1].y, pts.val[1].z>> = blob.poly.centroid
        /\ RatEq(pts.val[1].q, Rat(blob.value, 1))

C3_Witness ==
    /\ scall.sampling = "center" /\ scall.density = 2 /\ pts.ok
    /\ blob.poly.volume = 2500 /\ blob.value = 7
    /\ Len(pts.val) = 1

-----------------------------------------------------------------------------
(* More claims about graph.py, checked under SpecGraph.                    *)

\* the edges of g between nodes of S
InducedEdges(g, S) == {e \in Edges(g) : e \subseteq S}

\* no cycle among the nodes within r hops of s: the subgraph they induce is
\* connected, so it is a tree exactly when it has one edge less than nodes
AcyclicWithin(g, s, r) ==
    Cardinality(InducedEdges(g, Ball(g, {s}, r))) = Cardinality(Ball(g, {s}, r)) - 1

\* the radius=1 expansion of the seed united with the radius=1 expansions of
\* each of its direct neighbours, each filtered by the type
TwoExpansions(g, seed, typename) ==
    neighbors_by_type(g, seed, typename, 1).val
        \cup UNION {neighbors_by_type(g, n, typename, 1).val : n \in Range(g.adj[seed])}

\* C11 as stated: on a graph with no cycle within radius 2 of the seed,
\* neighbors_by_type(seed, code, radius=2) equals the union of the radius=1
\* expansion of the seed and the radius=1 expansions of each of the seed's
\* direct neighbours, filtered by code; seeds with no neighbours and seeds
\* whose own type equals code included.
C11_RadiusTwoIsTwoExpansions ==
    (call.op = "neighbors_by_type" /\ call.node \in G.nodes /\ call.radius = 2
        /\ AcyclicWithin(G, call.node, 2)) =>
        result = Return(TwoExpansions(G, call.node, call.typename))

\* the positions, in the traversal order of child's neighbours, of the
\* neighbours of the given type
MatchingPositions(g, child, parent_type) ==
    {i \in 1..Len(g.adj[child]) : g.type[g.adj[child][i]] = parent_type}

\* C12: for a child of the graph, parent returns the first direct neighbour
\* of the child, in neighbour traversal order, whose type equals parent_type,
\* and returns None exactly when no direct neighbour has that type; the
\* result is determined by the graph and the arguments alone, also when
\* several neighbours match.
C12_ParentIsFirstMatch ==
    (call.op = "parent" /\ call.node \in G.nodes) =>
        LET match == MatchingPositions(G, call.node, call.typename) IN
        /\ result.ok
        /\ (result.val = None) = (match = {})
        /\ match # {} =>
               /\ result.val = G.adj[call.node][CHOOSE i \in match : \A j \in match : i <= j]
               /\ G.type[result.val] = call.typename
               /\ Linked(G, call.node, result.val)

\* two neighbours match, the traversal visits the one of larger id first, and
\* that one is returned
C12_Witness ==
    /\ call.op = "parent" /\ call.node \in G.nodes
    /\ Cardinality(MatchingPositions(G, call.node, call.typename)) >= 2
    /\ result.ok /\ result.val = G.adj[call.node][1]
    /\ \E n \in Range(G.adj[call.node]) :
          n < result.val /\ G.type[n] = call.typename

-----------------------------------------------------------------------------
(* Claims about sequences of queries, checked under SpecQueries.           *)

\* C13: neighbors_by_type, neighbors_by_path, parent and channel_address are
\* pure reads: no call of them, returning or failing, changes the graph's
\* node set, its edge set, a node's type or an edge's attributes; so the
\* graph after any sequence of calls is the graph before it (G holds the
\* node set, the adjacency, the node types and the edge attributes).
C13_QueriesLeaveGraph == [][G' = G]_vars

\* neighbors_by_path has followed channel-conductor-wire from the chip of an
\* intact hierarchy and united the three levels
C13_Witness ==
    /\ call.op = "neighbors_by_path" /\ call.node = HierNode.chip
    /\ call.path = ChipPath
    /\ WellFormedHierarchy(G)
    /\ result = Return({HierNode.channel, HierNode.conductor, HierNode.wire})

-----------------------------------------------------------------------------
(* The queries and undrift on a graph of zero nodes.                       *)

EmptyGraph == MkGraph({}, <<>>, {}, <<>>, TRUE)

\* an empty connectivity graph and an empty cluster graph, loaded
InitEmpty ==
    /\ G = EmptyGraph
    /\ call = NoCall
    /\ result = NoResult
    /\ SampleIdle
    /\ file = <<>>
    /\ heap = <<>>
    /\ gr0 = NoGraph
    /\ gr = NoGraph
    /\ dcall = [speed |-> 0, t0 |-> 0]
    /\ ncalls = 0
    /\ OtherIdle

NextEmpty ==
    \/ CallNeighborsByType
    \/ CallNeighborsByPath
    \/ CallParent
    \/ CallChannelAddress
    \/ Undrift

SpecEmpty == InitEmpty /\ [][NextEmpty]_vars

-----------------------------------------------------------------------------
(* The conversion commands of wirecell/img/__main__.py that loop over the  *)
(* graphs of a cluster file (plot-blobs, paraview-blobs,                   *)
(* paraview-activity) or over cluster files (bee-blobs).  What converting  *)
(* one graph does is given with the graph: it has no nodes ("empty"), its  *)
(* conversion raises an error, or it yields the array arr of sampled       *)
(* points, one row <<x, y, z, q>> of rationals per point.                  *)

\* a command is run on at most MaxBatch graphs or files
MaxBatch == 2

\* the errors navigation and sampling fail with
Errors == {"LookupError", "GeometryError"}

NoDat == [type |-> "none"]

\* a/units.cm
PerCm(a) == Rat(a[1], a[2] * cm)

\* round(a, 3): the nearest multiple of 1/1000, a tie going to the even one
round3(a) == Rat(Round(Rat(a[1] * 1000, a[2])), 1000)

\* arr[:,c], columns counted from 1
Column(arr, c) == [i \in 1..Len(arr) |-> arr[i][c]]

\* fclean leaving the values as they are
fclean_unrounded(arr) == arr

fclean(arr) == [i \in 1..Len(arr) |-> round3(arr[i])]

\* the dictionary bee-blobs starts from
bee_dat(rse, geom) ==
    [runNo |-> rse[1], subRunNo |-> rse[2], eventNo |-> rse[3],
     geom |-> geom, type |-> "wire-cell",
     x |-> <<>>, y |-> <<>>, z |-> <<>>, q |-> <<>>]

\* bee_accumulate dividing the charge by the centimeter as well
bee_accumulate_q_rescaled(d, arr) ==
    [d EXCEPT !.x = @ \o fclean([i \in 1..Len(arr) |-> PerCm(arr[i][1])]),
              !.y = @ \o fclean([i \in 1..Len(arr) |-> PerCm(arr[i][2])]),
              !.z = @ \o fclean([i \in 1..Len(arr) |-> PerCm(arr[i][3])]),
              !.q = @ \o fclean([i \in 1..Len(arr) |-> PerCm(arr[i][4])])]

\* dat['x'] += fclean(arr[:,0]/units.cm), and so for y and z;
\* dat['q'] += fclean(arr[:,3])
bee_accumulate(d, arr) ==
    [d EXCEPT !.x = @ \o fclean([i \in 1..Len(arr) |-> PerCm(Column(arr, 1)[i])]),
              !.y = @ \o fclean([i \in 1..Len(arr) |-> PerCm(Column(arr, 2)[i])]),
              !.z = @ \o fclean([i \in 1..Len(arr) |-> PerCm(Column(arr, 3)[i])]),
              !.q = @ \o fclean(Column(arr, 4))]

\* point arrays whose coordinates have more than three decimals in
\* centimeters, one of them half way between two thousandths
SampleArrays ==
    {<<<<Rat(123456, 1000), Rat(-5, 2), Rat(0, 1), Rat(7, 3)>>>>,
     <<<<Rat(5, 1000), Rat(40, 1), Rat(-1, 3), Rat(12346, 10000)>>,
       <<Rat(1, 1), Rat(2, 1), Rat(3, 1), Rat(4, 1)>>>>}

Items ==
    {[kind |-> "ok", arr |-> a] : a \in SampleArrays}
        \cup {[kind |-> "empty", arr |-> <<>>]}
        \cup {[kind |-> e, arr |-> <<>>] : e \in Errors}

Batches == UNION {[1..k -> Items] : k \in 0..MaxBatch}

\* the sample arrays of the graphs a cluster file holds after its first one:
\* none, or one graph of two points
LaterGraphs ==
    {<<>>, <<<<<<Rat(9, 1), Rat(8, 1), Rat(7, 1), Rat(6, 1)>>,
               <<Rat(-1, 1), Rat(-2, 1), Rat(-3, 1), Rat(5, 2)>>>>>>}

\* the cluster files bee-blobs is given: what becomes of the first graph of
\* the file (kind, arr) and the graphs after it; a file of no graphs has
\* kind "IndexError"
ClusterFiles ==
    {[kind |-> it.kind, arr |-> it.arr, later |-> l] : it \in Items, l \in LaterGraphs}
        \cup {[kind |-> "IndexError", arr |-> <<>>, later |-> <<>>]}

FileBatches == UNION {[1..k -> ClusterFiles] : k \in 0..MaxBatch}

\* bee_blobs taking the last graph of a file
loaded_graph_last(ctf) ==
    IF ctf.later = <<>> THEN [kind |-> ctf.kind, arr |-> ctf.arr]
    ELSE [kind |-> "ok", arr |-> ctf.later[Len(ctf.later)]]

\* list(tap.load(ctf))[0]: the first graph of the file, the later ones
\* ignored
loaded_graph(ctf) == [kind |-> ctf.kind, arr |-> ctf.arr]

RseChoices == {<<0, 0, 0>>, <<1, 2, 3>>}

\* the command lines: the paraview file name holds a '%' or not; bee-blobs
\* takes the run, subrun and event numbers and the geometry name
Commands ==
    {[driver |-> "plot-blobs", pattern |-> FALSE, rse |-> <<0, 0, 0>>, geom |-> ""]}
        \cup {[driver |-> d, pattern |-> p, rse |-> <<0, 0, 0>>, geom |-> ""] :
                 d \in {"paraview-blobs", "paraview-activity"}, p \in BOOLEAN}
        \cup {[driver |-> "bee-blobs", pattern |-> FALSE, rse |-> r, geom |-> "protodune"] :
                 r \in RseChoices}

\* a message printed while item i is being handled (i = 0: outside the loop)
Message(i, msg) == [item |-> i, msg |-> msg]

InitDrivers ==
    /\ cmd \in Commands
    /\ batch \in IF cmd.driver = "bee-blobs" THEN FileBatches ELSE Batches
    /\ ntaken = 0
    /\ status = "running"
    /\ outputs = {}
    /\ log = <<>>
    /\ dat = IF cmd.driver = "bee-blobs" THEN bee_dat(cmd.rse, cmd.geom) ELSE NoDat
    /\ json = NoDat
    /\ GraphIdle
    /\ SampleIdle
    /\ DriftIdle
    /\ FramesIdle
    /\ HashIdle
    /\ DepoIdle
    /\ TransformIdle
    /\ ImpactIdle

\* plot_blobs: one turn of the loop over the graphs inside "with pages(...)",
\* or the end of the loop.  A graph with no nodes makes the function return.
PlotBlobsStep ==
    /\ cmd.driver = "plot-blobs" /\ status = "running"
    /\ IF ntaken = Len(batch)
       THEN /\ log' = Append(log, Message(0, "plot_file"))
            /\ status' = "done"
            /\ UNCHANGED <<ntaken, outputs>>
       ELSE LET i == ntaken + 1 IN
            /\ ntaken' = i
            /\ CASE batch[i].kind = "empty" ->
                      /\ log' = Append(log, Message(i, "no verticies in cluster_file"))
                      /\ status' = "done"
                      /\ UNCHANGED outputs
                 [] batch[i].kind \in Errors ->
                      /\ status' = batch[i].kind
                      /\ UNCHANGED <<log, outputs>>
                 [] OTHER ->
                      /\ outputs' = outputs \cup {i}
                      /\ UNCHANGED <<log, status>>
    /\ UNCHANGED <<cmd, batch, dat, json, gvars, svars, dvars, pvars, tvars, ivars, fvars, hvars>>

\* paraview_blobs: the test for a file of no graphs, then do_one on each
\* graph.  A graph with no nodes makes do_one call sys.exit(-1).
ParaviewBlobsStep ==
    /\ cmd.driver = "paraview-blobs" /\ status = "running"
    /\ IF Len(batch) = 0
       THEN /\ log' = Append(log, Message(0, "no graphs from cluster_file"))
            /\ status' = "exit-1"
            /\ UNCHANGED <<ntaken, outputs>>
       ELSE IF ntaken = Len(batch)
       THEN /\ status' = "done"
            /\ UNCHANGED <<ntaken, outputs, log>>
       ELSE LET i == ntaken + 1 IN
            /\ ntaken' = i
            /\ CASE batch[i].kind = "empty" ->
                      /\ log' = Append(log, Message(i, "no verticies in cluster_file"))
                      /\ status' = "exit-1"
                      /\ UNCHANGED outputs
                 [] batch[i].kind \in Errors ->
                      /\ status' = batch[i].kind
                      /\ UNCHANGED <<log, outputs>>
                 [] OTHER ->
                      /\ outputs' = IF cmd.pattern THEN outputs \cup {i} ELSE {i}
                      /\ log' = Append(log, Message(i, "fname"))
                      /\ UNCHANGED status
    /\ UNCHANGED <<cmd, batch, dat, json, gvars, svars, dvars, pvars, tvars, ivars, fvars, hvars>>

\* paraview_activity: do_one on each graph.  A graph with no nodes makes
\* do_one return, and the loop goes on.
ParaviewActivityStep ==
    /\ cmd.driver = "paraview-activity" /\ status = "running"
    /\ IF ntaken = Len(batch)
       THEN /\ status' = "done"
            /\ UNCHANGED <<ntaken, outputs, log>>
       ELSE LET i == ntaken + 1 IN
            /\ ntaken' = i
            /\ CASE batch[i].kind = "empty" ->
                      /\ log' = Append(log, Message(i, "no verticies in cluster_file"))
                      /\ UNCHANGED <<status, outputs>>
                 [] batch[i].kind \in Errors ->
                      /\ status' = batch[i].kind
                      /\ UNCHANGED <<log, outputs>>
                 [] OTHER ->
                      /\ outputs' = IF cmd.pattern THEN outputs \cup {i} ELSE {i}
                      /\ log' = Append(log, Message(i, "pname"))
                      /\ UNCHANGED status
    /\ UNCHANGED <<cmd, batch, dat, json, gvars, svars, dvars, pvars, tvars, ivars, fvars, hvars>>

\* bee_blobs: one turn of the loop over the cluster files, or json.dump after
\* the loop.  Of each file the first graph is taken (a file of no graphs
\* ends the run with IndexError); a graph with no nodes is skipped with
\* "continue".
BeeBlobsStep ==
    /\ cmd.driver = "bee-blobs" /\ status = "running"
    /\ IF ntaken = Len(batch)
       THEN /\ json' = dat
            /\ outputs' = {0}
            /\ status' = "done"
            /\ UNCHANGED <<ntaken, log, dat>>
       ELSE LET i      == ntaken + 1
                graph  == loaded_graph(batch[i])
            IN
            /\ ntaken' = i
            /\ CASE graph.kind = "empty" ->
                      /\ log' = Append(log, Message(i, "skipping empty graph ctf"))
                      /\ UNCHANGED <<status, dat>>
                 [] graph.kind \in Errors \cup {"IndexError"} ->
                      /\ status' = graph.kind
                      /\ UNCHANGED <<log, dat>>
                 [] OTHER ->
                      /\ dat' = bee_accumulate(dat, graph.arr)
                      /\ log' = Append(log, Message(i, "ctf: points"))
                      /\ UNCHANGED status
            /\ UNCHANGED <<json, outputs>>
    /\ UNCHANGED <<cmd, batch, gvars, svars, dvars, pvars, tvars, ivars, fvars, hvars>>

NextDrivers ==
    \/ PlotBlobsStep
    \/ ParaviewBlobsStep
    \/ ParaviewActivityStep
    \/ BeeBlobsStep

SpecDrivers == InitDrivers /\ [][NextDrivers]_vars

-----------------------------------------------------------------------------
(* Claims about the conversion commands, checked under SpecDrivers.        *)

\* the run has ended without taking up every item of the batch
EndedEarly == status # "running" /\ ntaken < Len(batch)

\* C15 as stated: every conversion command treats a graph of zero nodes as
\* nothing to do for that graph only: it writes no output for it, does not
\* end the run with an error status, and goes on to the remaining graphs or
\* files.
C15_EmptyGraphIsNothingToDo ==
    \A i \in 1..ntaken : batch[i].kind = "empty" =>
        /\ i \notin outputs
        /\ status # "exit-1"
        /\ (ntaken = i => ~EndedEarly)

\* C16 as stated: when converting one graph or file of a batch fails with a
\* LookupError or a GeometryError, the command reports that item and goes on
\* with the next one: the run does not end with the error, every later item
\* is taken up, and the failure is in the messages.
C16_FailureIsReportedAndSkipped ==
    \A i \in 1..ntaken : batch[i].kind \in Errors =>
        /\ status \in {"running", "done"}
        /\ \E k \in 1..Len(log) : log[k].item = i
        /\ (ntaken = i => ~EndedEarly)

Abs(a) == IF a < 0 THEN -a ELSE a

\* v is a multiple of 1/1000 nearest to a/unit
IsRounded3(v, a, unit) ==
    /\ (1000 * v[1]) % v[2] = 0
    /\ 2000 * Abs(v[1] * a[2] * unit - a[1] * v[2]) <= v[2] * a[2] * unit

\* the points of the graphs of the first k items that were converted
RECURSIVE PointsOf(_, _)
PointsOf(b, k) ==
    IF k = 0 THEN <<>>
    ELSE PointsOf(b, k - 1) \o (IF b[k].kind = "ok" THEN b[k].arr ELSE <<>>)

BeeFields == {"runNo", "subRunNo", "eventNo", "geom", "type", "x", "y", "z", "q"}

\* C17: the Bee JSON object bee-blobs writes has exactly the fields runNo,
\* subRunNo, eventNo, geom, type, x, y, z, q; runNo, subRunNo and eventNo are
\* the three numbers of rse in that order; every entry of x, y and z is the
\* sampled coordinate divided by the centimeter and rounded to 3 decimals,
\* every entry of q the sampled charge rounded to 3 decimals, not rescaled.
C17_BeeJson ==
    (cmd.driver = "bee-blobs" /\ status = "done") =>
        LET sampled == PointsOf(batch, Len(batch)) IN
        /\ DOMAIN json = BeeFields
        /\ <<json.runNo, json.subRunNo, json.eventNo>> = cmd.rse
        /\ json.geom = cmd.geom
        /\ \A f \in {"x", "y", "z", "q"} : Len(json[f]) = Len(sampled)
        /\ \A k \in 1..Len(sampled) :
              /\ IsRounded3(json.x[k], sampled[k][1], cm)
              /\ IsRounded3(json.y[k], sampled[k][2], cm)
              /\ IsRounded3(json.z[k], sampled[k][3], cm)
              /\ IsRounded3(json.q[k], sampled[k][4], 1)

\* a Bee file was written with a coordinate that rounding changed and a
\* charge that was not divided
C17_Witness ==
    /\ cmd.driver = "bee-blobs" /\ status = "done" /\ cmd.rse = <<1, 2, 3>>
    /\ Len(batch) = 2 /\ batch[1].kind = "ok" /\ batch[2].kind = "ok"
    /\ Len(json.x) >= 2
    /\ RatEq(json.x[1], Rat(12346, 1000))
    /\ ~RatEq(json.x[1], PerCm(batch[1].arr[1][1]))
    /\ RatEq(json.q[1], Rat(2333, 1000))

-----------------------------------------------------------------------------
(* paraview-depos: the drift of the depos before they are converted.       *)

\* a depo file holds at most MaxDepos depos
MaxDepos == 2

\* paraview_depos adding t0 to the times when a speed is given as well
drift_depos_shifting_t(depos, speed, t0) ==
    [i \in 1..Len(depos) |->
        IF speed.given
        THEN [depos[i] EXCEPT !.x = speed.val * (depos[i].t + t0), !.t = @ + t0]
        ELSE [depos[i] EXCEPT !.t = @ + t0]]

\* if speed is not None: depos['x'] = speed*(depos['t']+t0)
\* else: depos['t'] += t0
drift_depos(depos, speed, t0) ==
    [i \in 1..Len(depos) |->
        IF speed.given
        THEN [depos[i] EXCEPT !.x = speed.val * (depos[i].t + t0)]
        ELSE [depos[i] EXCEPT !.t = @ + t0]]

\* a depo: its time, charge and position (the extents are left out)
DepoInputs ==
    [t : {0, 5}, q : {1}, x : {-1, 4}, y : {2}, z : {3}]

DepoArrays == UNION {[1..k -> DepoInputs] : k \in 0..MaxDepos}

\* --speed is not given (None) or a speed; --t0 is a time
SpeedOptions ==
    {[given |-> FALSE, val |-> 0]} \cup {[given |-> TRUE, val |-> v] : v \in Speeds}

InitDepos ==
    /\ pdepos \in DepoArrays
    /\ popts \in [speed : SpeedOptions, t0 : T0s]
    /\ ugrid = NotRun
    /\ GraphIdle
    /\ SampleIdle
    /\ DriftIdle
    /\ FramesIdle
    /\ HashIdle
    /\ BatchIdle
    /\ TransformIdle
    /\ ImpactIdle

\* the command, from the loaded depos to the call of converter.depos2pts
ParaviewDepos ==
    /\ ugrid = NotRun
    /\ ugrid' = Return(drift_depos(pdepos, popts.speed, popts.t0))
    /\ UNCHANGED <<pdepos, popts, gvars, svars, dvars, bvars, tvars, ivars, fvars, hvars>>

NextDepos == ParaviewDepos

SpecDepos == InitDepos /\ [][NextDepos]_vars

\* C18: paraview-depos: if a speed is given, every depo's x becomes
\* (t + t0)*speed and its t is left untouched; if no speed is given, every
\* depo's t has t0 added and its x is left untouched; in both cases the other
\* fields of the depo are unchanged, and no depo is added or dropped.
C18_DepoDrift ==
    ugrid # NotRun =>
        /\ Len(ugrid.val) = Len(pdepos)
        /\ \A i \in 1..Len(pdepos) :
              LET before == pdepos[i]
                  after  == ugrid.val[i]
              IN  /\ IF popts.speed.given
                     THEN /\ after.x = (before.t + popts.t0) * popts.speed.val
                          /\ after.t = before.t
                     ELSE /\ after.t = before.t + popts.t0
                          /\ after.x = before.x
                  /\ DOMAIN after = DOMAIN before
                  /\ \A f \in DOMAIN before \ {"x", "t"} : after[f] = before[f]

\* a speed and a non-zero t0 were given and a depo's x was replaced while its
\* t stayed
C18_Witness ==
    /\ ugrid # NotRun /\ popts.speed.given /\ popts.speed.val = 2 /\ popts.t0 = 3
    /\ \E i \in 1..Len(pdepos) :
          /\ pdepos[i].t = 5 /\ pdepos[i].x = 4
          /\ ugrid.val[i].x = 16 /\ ugrid.val[i].t = 5

-----------------------------------------------------------------------------
(* transform-depos: rotation, location and translation of the depo sets of *)
(* a file.  Positions are vectors of three integers; the rotations are     *)
(* quarter turns about an axis, so that they stay integers.                *)

\* a depo file holds at most MaxSets depo sets
MaxSets == 2

VAdd(a, b) == <<a[1] + b[1], a[2] + b[2], a[3] + b[3]>>

VSub(a, b) == <<a[1] - b[1], a[2] - b[2], a[3] - b[3]>>

\* Rotation.from_euler(code, 90*deg).apply(v)
Rotate90(code, v) ==
    CASE code = "x" -> <<v[1], -v[3], v[2]>>
      [] code = "y" -> <<v[3], v[2], -v[1]>>
      [] code = "z" -> <<-v[2], v[1], v[3]>>

\* arr[keep,:]: the rows of arr whose info row is of the generation
RECURSIVE KeepGeneration(_, _, _)
KeepGeneration(arr, nfo, generation) ==
    IF arr = <<>> THEN <<>>
    ELSE (IF Head(nfo).gen = generation THEN <<Head(arr)>> ELSE <<>>)
            \o KeepGeneration(Tail(arr), Tail(nfo), generation)

RECURSIVE SumQ3(_)
SumQ3(rows) == IF rows = <<>> THEN 0 ELSE Head(rows).q + SumQ3(Tail(rows))

RECURSIVE SumQR(_)
SumQR(rows) ==
    IF rows = <<>> THEN <<0, 0, 0>>
    ELSE VAdd(<<Head(rows).q * Head(rows).r[1], Head(rows).q * Head(rows).r[2],
                Head(rows).q * Head(rows).r[3]>>, SumQR(Tail(rows)))

\* coq = numpy.sum(qr, axis=0)/numpy.sum(q), on rows for which the quotient
\* is a vector of integers
center_of_charge(rows) ==
    IF rows = <<>> THEN <<0, 0, 0>>
    ELSE <<SumQR(rows)[1] \div SumQ3(rows), SumQR(rows)[2] \div SumQ3(rows),
           SumQR(rows)[3] \div SumQ3(rows)>>

\* for one in rotate: r = R.apply(r-coq)+coq
RECURSIVE apply_rotations(_, _, _)
apply_rotations(rotate, coq, v) ==
    IF rotate = <<>> THEN v
    ELSE apply_rotations(Tail(rotate), coq,
                         VAdd(Rotate90(Head(rotate), VSub(v, coq)), coq))

\* the truth value Python gives an option value: None is false, a non-empty
\* string true, an array of three numbers has none (ValueError)
Truth(v) ==
    CASE v.type = "NoneType" -> Return(FALSE)
      [] v.type = "str" -> Return(TRUE)
      [] v.type = "ndarray" -> Raise("ValueError")

\* numpy.array(unitify(v)) of a string of three coordinates
AsArray(v) == [type |-> "ndarray", val |-> v.val]

\* depo sets: one depo; two depos; two depos, the second of generation 1
DepoSets ==
    {[dat |-> <<[q |-> 1, r |-> <<2, 0, 0>>]>>,
      nfo |-> <<[id |-> 1, gen |-> 0]>>],
     [dat |-> <<[q |-> 1, r |-> <<2, 0, 0>>], [q |-> 3, r |-> <<-2, 4, 8>>]>>,
      nfo |-> <<[id |-> 1, gen |-> 0], [id |-> 2, gen |-> 0]>>],
     [dat |-> <<[q |-> 2, r |-> <<0, 4, -2>>], [q |-> 1, r |-> <<5, 5, 5>>]>>,
      nfo |-> <<[id |-> 1, gen |-> 0], [id |-> 2, gen |-> 1]>>]}

\* the numbers in the names depo_data_<index> of a file
IndexChoices == {0, 2, 10}

DepoFiles ==
    UNION {[I -> DepoSets] : I \in {J \in SUBSET IndexChoices : Cardinality(J) <= MaxSets}}

\* --rotate given no, one or two times, each a quarter turn
RotateOptions == {<<>>, <<"x">>, <<"x", "z">>, <<"z", "x">>}

\* --locate and --move: not given (None), or a string of three coordinates
VectorOptions ==
    {[type |-> "NoneType"]} \cup {[type |-> "str", val |-> v] : v \in {<<1, 0, -3>>}}

TransformOptions ==
    [forward : BOOLEAN, rotate : RotateOptions, locate : VectorOptions, move : VectorOptions]

\* the entries depo_data_<k>.npy and depo_info_<k>.npy
Entry(k, arr, nfo) == [k |-> k, dat |-> arr, nfo |-> nfo]

InitTransform ==
    /\ fp \in DepoFiles
    /\ \E o \in TransformOptions :
          /\ topts = [forward |-> o.forward, rotate |-> o.rotate]
          /\ locate = o.locate
          /\ move = o.move
    /\ nsets = 0
    /\ out_count = 0
    /\ zf = <<>>
    /\ tstatus = "running"
    /\ GraphIdle
    /\ SampleIdle
    /\ DriftIdle
    /\ FramesIdle
    /\ HashIdle
    /\ BatchIdle
    /\ DepoIdle
    /\ ImpactIdle

\* one turn of the loop over the sorted indices
TransformStep ==
    /\ tstatus = "running" /\ nsets < Cardinality(DOMAIN fp)
    /\ LET index == SortedSeq(DOMAIN fp, TRUE)[nsets + 1]
           nfo == KeepGeneration(fp[index].nfo, fp[index].nfo, 0)
           arr == KeepGeneration(fp[index].dat, fp[index].nfo, 0)
           forwarded == IF topts.forward THEN <<Entry(out_count, arr, nfo)>> ELSE <<>>
           count == out_count + Len(forwarded)
           coq == center_of_charge(arr)
           rotated == [i \in 1..Len(arr) |-> apply_rotations(topts.rotate, coq, arr[i].r)]
           if_locate == Truth(locate)
           if_move == Truth(move)
       IN  /\ nsets' = nsets + 1
           /\ IF ~if_locate.ok
              THEN /\ tstatus' = if_locate.exc
                   /\ zf' = zf \o forwarded
                   /\ out_count' = count
                   /\ UNCHANGED <<locate, move>>
              ELSE LET located == IF if_locate.val
                                  THEN [i \in 1..Len(arr) |->
                                           VAdd(VSub(rotated[i], coq), locate.val)]
                                  ELSE rotated
                   IN  /\ locate' = IF if_locate.val THEN AsArray(locate) ELSE locate
                       /\ IF ~if_move.ok
                          THEN /\ tstatus' = if_move.exc
                               /\ zf' = zf \o forwarded
                               /\ out_count' = count
                               /\ UNCHANGED move
                          ELSE LET moved == IF if_move.val
                                            THEN [i \in 1..Len(arr) |->
                                                     VAdd(located[i], move.val)]
                                            ELSE located
                               IN  /\ move' = IF if_move.val THEN AsArray(move) ELSE move
                                   /\ zf' = zf \o forwarded \o
                                            <<Entry(count,
                                                    [i \in 1..Len(arr) |->
                                                        [arr[i] EXCEPT !.r = moved[i]]],
                                                    nfo)>>
                                   /\ out_count' = count + 1
                                   /\ UNCHANGED tstatus
    /\ UNCHANGED <<fp, topts, gvars, svars, dvars, bvars, pvars, ivars, fvars, hvars>>

\* the loop is over and the archive is closed
TransformDone ==
    /\ tstatus = "running" /\ nsets = Cardinality(DOMAIN fp)
    /\ tstatus' = "done"
    /\ UNCHANGED <<fp, topts, locate, move, nsets, out_count, zf,
                   gvars, svars, dvars, bvars, pvars, ivars, fvars, hvars>>

NextTransform ==
    \/ TransformStep
    \/ TransformDone

SpecTransform == InitTransform /\ [][NextTransform]_vars

\* the vector an option was given on the command line, whatever the name is
\* bound to by now
Given(v) == v.type # "NoneType"

\* the rows of a set as the command is documented to transform them: the
\* rows of generation 0, rotated about the set's center of charge by the
\* rotations in order, then located, then moved
Transformed(set, rotate, loc, mov) ==
    LET arr == KeepGeneration(set.dat, set.nfo, 0)
        coq == center_of_charge(arr)
        rotated == [i \in 1..Len(arr) |-> apply_rotations(rotate, coq, arr[i].r)]
        located == [i \in 1..Len(arr) |->
                       IF Given(loc) THEN VAdd(VSub(rotated[i], coq), loc.val)
                       ELSE rotated[i]]
    IN  [i \in 1..Len(arr) |->
            [arr[i] EXCEPT !.r = IF Given(mov) THEN VAdd(located[i], mov.val)
                                 ELSE located[i]]]

\* C19 as stated: transform-depos applies the same transformation to every
\* depo set of the file: the positions of the k-th set are rotated about that
\* set's center of charge by the given rotations in order, then located, then
\* moved, with the values of the command line, however many sets came before
\* it; and the run does not fail on a later set when it did not on the first.
C19_SameTransformEverySet ==
    /\ tstatus \in {"running", "done"}
    /\ \A k \in 1..nsets :
          LET index == SortedSeq(DOMAIN fp, TRUE)[k]
              at == IF topts.forward THEN 2 * k ELSE k
          IN  /\ at <= Len(zf)
              /\ zf[at].dat = Transformed(fp[index], topts.rotate, locate, move)

-----------------------------------------------------------------------------
(* wirecell/sigproc/response/plots.py: the impact bins of a pitch position. *)
(* The bin edges ls are given by their first edge lo = ls[0], their step   *)
(* d = ls[1]-ls[0] > 0 and their number of bins nbins = len(ls)-1.         *)

\* bin edges have at most MaxBins bins
MaxBins == 22

\* impact_linspace_index filling the bin of the wire itself
impact_linspace_index_wire_not_lowered(ls, pitchpos) ==
    LET nbins == ls.nbins
        ind   == Round(Rat(pitchpos - ls.lo, ls.d))
    IN  IF ind < 0 \/ ind >= nbins THEN Raise("IndexError")
        ELSE IF ind % 2 # 0 THEN Raise("AssertionError(ind%2 == 0)")
        ELSE IF ind % 10 = 0
        THEN Return(<<<<ind>>, <<nbins - 1 - ind>>>>)
        ELSE Return(<<<<ind - 1, ind>>, <<nbins - 1 - (ind - 1), nbins - 1 - ind>>>>)

\* impact_linspace_index with the reflected index taken as nbins-ind
impact_linspace_index_mirror_off_by_one(ls, pitchpos) ==
    LET nbins == ls.nbins
        ind == Round(Rat(pitchpos - ls.lo, ls.d))
    IN  IF ind < 0 \/ ind >= nbins THEN Raise("IndexError")
        ELSE IF ind % 2 # 0 THEN Raise("AssertionError(ind%2 == 0)")
        ELSE IF ind % 10 = 0
        THEN LET wire == IF ind % 20 = 10 THEN ind - 1 ELSE ind
             IN  Return(<<<<wire>>, <<nbins - wire>>>>)
        ELSE Return(<<<<ind - 1, ind>>, <<nbins - (ind - 1), nbins - ind>>>>)

impact_linspace_index(ls, pitchpos) ==
    LET nbins == ls.nbins
        ind == Round(Rat(pitchpos - ls.lo, ls.d))
    IN  IF ind < 0 \/ ind >= nbins THEN Raise("IndexError")
        ELSE IF ind % 2 # 0 THEN Raise("AssertionError(ind%2 == 0)")
        ELSE IF ind % 10 = 0
        THEN LET wire == IF ind % 20 = 10 THEN ind - 1 ELSE ind
             IN  Return(<<<<wire>>, <<nbins - 1 - wire>>>>)
        ELSE Return(<<<<ind - 1, ind>>, <<nbins - 1 - (ind - 1), nbins - 1 - ind>>>>)

\* get_current, for one path: the rows of currents it fills for the path's
\* pitch position, after the assertions on each row index
get_current_path(ls, pitchpos, reflect) ==
    LET found == impact_linspace_index(ls, pitchpos) IN
    IF ~found.ok THEN found
    ELSE LET inds == found.val[1] \o (IF reflect THEN found.val[2] ELSE <<>>)
         IN  IF \E i \in 1..Len(inds) : ~(inds[i] >= 0)
             THEN Raise("AssertionError(ind >= 0)")
             ELSE IF \E i \in 1..Len(inds) : ~(inds[i] < ls.nbins + 1)
             THEN Raise("AssertionError(ind < len(ilin))")
             ELSE Return(inds)

\* bin edges starting at 0 or at -7, of step 1 or 3
Linspaces == [lo : {-7, 0}, d : {1, 3}, nbins : 1..MaxBins]

\* the positions from two steps below the first edge to one step above the
\* last
PitchPositions(ls) == (ls.lo - 2 * ls.d)..(ls.lo + (ls.nbins + 1) * ls.d)

InitImpact ==
    /\ ilin \in Linspaces
    /\ pitchpos_in \in PitchPositions(ilin)
    /\ imps = NotRun
    /\ gcur = NotRun
    /\ PlaneIdle
    /\ GraphIdle
    /\ SampleIdle
    /\ DriftIdle
    /\ FramesIdle
    /\ HashIdle
    /\ BatchIdle
    /\ DepoIdle
    /\ TransformIdle

ImpactLinspaceIndex ==
    /\ imps' = impact_linspace_index(ilin, pitchpos_in)
    /\ UNCHANGED <<ilin, pitchpos_in, gcur, plane, npaths, currents, gvars, svars, dvars, bvars, pvars, tvars,
                   fvars, hvars>>

GetCurrent ==
    /\ \E reflect \in BOOLEAN : gcur' = get_current_path(ilin, pitchpos_in, reflect)
    /\ UNCHANGED <<ilin, pitchpos_in, imps, plane, npaths, currents, gvars, svars, dvars, bvars, pvars, tvars,
                   fvars, hvars>>

NextImpact ==
    \/ ImpactLinspaceIndex
    \/ GetCurrent

SpecImpact == InitImpact /\ [][NextImpact]_vars

\* C20: impact_linspace_index(ls, pitchpos), whenever it returns, yields
\* (primary, mirror) tuples of equal length with
\* mirror[i] = nbins-1-primary[i] and every index in 0..nbins-1, its result
\* depending on its arguments only; for a position whose rounded bin index
\* is outside [0, nbins) it raises IndexError; so the assertions on ind in
\* get_current, ind >= 0 and ind < len(ilin), never fail.
C20_ImpactIndex ==
    LET nbins == ilin.nbins
        rounded == Round(Rat(pitchpos_in - ilin.lo, ilin.d))
    IN  /\ imps.ok =>
               LET primary == imps.val[1]
                   mirror  == imps.val[2]
               IN  /\ Len(primary) = Len(mirror) /\ Len(primary) >= 1
                   /\ \A i \in 1..Len(primary) :
                         /\ mirror[i] = nbins - 1 - primary[i]
                         /\ primary[i] \in 0..(nbins - 1)
                         /\ mirror[i] \in 0..(nbins - 1)
        /\ (imps # NotRun /\ (rounded < 0 \/ rounded >= nbins)) => imps = Raise("IndexError")
        /\ (gcur # NotRun /\ ~gcur.ok) =>
               gcur.exc \notin {"AssertionError(ind >= 0)", "AssertionError(ind < len(ilin))"}
        /\ (gcur.ok /\ imps.ok) =>
               Range(gcur.val) \subseteq Range(imps.val[1]) \cup Range(imps.val[2])

\* a position on a wire (rounded index 10): the single bin just below it and
\* its mirror, both filled by get_current with reflect
C20_Witness ==
    /\ ilin.nbins = 20 /\ ilin.d = 3
    /\ Round(Rat(pitchpos_in - ilin.lo, ilin.d)) = 10
    /\ (pitchpos_in - ilin.lo) % ilin.d # 0
    /\ imps = Return(<<<<9>>, <<10>>>>)
    /\ gcur = Return(<<9, 10>>)
-----------------------------------------------------------------------------
(* get_current over the paths of a plane response                          *)
(* (wirecell/sigproc/response/plots.py).                                   *)
(*                                                                         *)
(* A plane response holds one path per impact position.  Positions are     *)
(* whole numbers of a length unit in which the bin width of the planes     *)
(* below is whole.                                                         *)

\* planes have from 1 to MaxRegions wire regions
MaxRegions == 2

\* impact_linspace: the bin edges, from -imax to imax in nibins steps, where
\* idelta is half the distance of the two lowest impacts; the assertion
\* fails when 2*imax/idelta is not whole.  The positions of a plane are
\* distinct, and the step of the edges is whole for the planes below.
impact_linspace(paths) ==
    LET impacts  == SortedSeq(Range(paths), TRUE)
        idelta   == Rat(impacts[2] - impacts[1], 2)
        imax     == CHOOSE a \in {Abs(p) : p \in Range(paths)} :
                        \A p \in Range(paths) : Abs(p) <= a
        nibins_f == Rat(2 * imax * idelta[2], idelta[1])
        nibins   == Round(nibins_f)
    IN  IF ~RatEq(Rat(nibins, 1), nibins_f)
        THEN Raise("AssertionError(abs(nibins-nibins_f) < 1e-6)")
        ELSE Return([lo |-> -imax, d |-> (2 * imax) \div nibins, nbins |-> nibins])

\* The impact positions of a plane of R wire regions with bins of width d:
\* counted in bins from the lowest region edge, each region has impacts on
\* its lower edge, then every second bin edge up to its wire, which is ten
\* bins up; zero is the middle of the plane.  A closed plane has an impact
\* on the upper edge of its last region as well.
PlaneImpacts(R, d, closed) ==
    {(20 * k + j - 10 * R) * d : k \in 0..(R - 1), j \in {0, 2, 4, 6, 8, 10}}
        \cup (IF closed THEN {10 * R * d} ELSE {})

\* planes with their paths stored in ascending or in descending order of
\* position
Planes ==
    {[paths |-> SortedSeq(PlaneImpacts(R, d, closed), asc), reflect |-> reflect] :
        R \in 1..MaxRegions, d \in {1, 3}, closed \in BOOLEAN,
        asc \in BOOLEAN, reflect \in BOOLEAN}

\* get_current up to its loop: the bin edges of the plane, currents all zero,
\* one row per bin edge
InitPlane ==
    /\ plane \in Planes
    /\ ilin = impact_linspace(plane.paths).val
    /\ npaths = 0
    /\ currents = [row \in 0..ilin.nbins |-> 0]
    /\ pitchpos_in = 0
    /\ imps = NotRun
    /\ gcur = NotRun
    /\ GraphIdle
    /\ SampleIdle
    /\ DriftIdle
    /\ FramesIdle
    /\ HashIdle
    /\ BatchIdle
    /\ DepoIdle
    /\ TransformIdle

\* one turn of the loop over the paths: the rows found for the path's
\* position are filled with its current
GetCurrentPath ==
    /\ npaths < Len(plane.paths)
    /\ gcur = NotRun \/ gcur.ok
    /\ LET filled == get_current_path(ilin, plane.paths[npaths + 1], plane.reflect)
       IN  /\ gcur' = filled
           /\ currents' =
                  IF filled.ok
                  THEN [row \in DOMAIN currents |->
                           currents[row]
                             + Cardinality({i \in 1..Len(filled.val) : filled.val[i] = row})]
                  ELSE currents
    /\ npaths' = npaths + 1
    /\ UNCHANGED <<plane, ilin, pitchpos_in, imps, gvars, svars, dvars, bvars, pvars, tvars,
                   fvars, hvars>>

NextPlane == GetCurrentPath

SpecPlane == InitPlane /\ [][NextPlane]_vars

\* the number of the bin edge a position of the plane lies on
ImpactIndex(pitchpos) == (pitchpos - ilin.lo) \div ilin.d

\* the plane has 20 bins per region and its impacts are on the bin edges
\* 20k + {0, 2, 4, 6, 8, 10}, k = 0..R-1
TwentyBinsPerRegion ==
    /\ ilin.nbins % 20 = 0
    /\ ilin.nbins >= 20
    /\ {ImpactIndex(plane.paths[i]) : i \in 1..Len(plane.paths)}
         = {20 * k + j : k \in 0..((ilin.nbins \div 20) - 1), j \in {0, 2, 4, 6, 8, 10}}

\* C21: with 20 bins per wire region and impacts on the bin edges
\* 20k+{0,2,4,6,8,10}, k = 0..R-1, get_current fills for an impact on a
\* region edge exactly one bin (that of the edge), for an impact on the wire
\* exactly one bin (the one just below the wire), and for each of the four
\* impacts in between exactly two adjacent bins, and as many mirror bins when
\* reflect is true; after the loop over all paths with reflect true, every
\* bin 0..nbins-1 has been filled exactly once.
C21_ImpactCoverage ==
    TwentyBinsPerRegion =>
        /\ gcur = NotRun \/ gcur.ok
        /\ npaths >= 1 =>
               LET ind   == ImpactIndex(plane.paths[npaths])
                   inds  == gcur.val
                   sides == IF plane.reflect THEN 2 ELSE 1
               IN  /\ ind % 20 = 0 => Len(inds) = sides /\ inds[1] = ind
                   /\ ind % 20 = 10 => Len(inds) = sides /\ inds[1] = ind - 1
                   /\ ind % 20 \notin {0, 10} =>
                          /\ Len(inds) = 2 * sides
                          /\ inds[1] = ind - 1 /\ inds[2] = ind
                          /\ plane.reflect => Abs(inds[3] - inds[4]) = 1
        /\ (npaths = Len(plane.paths) /\ plane.reflect) =>
               \A b \in 0..(ilin.nbins - 1) : currents[b] = 1

\* a plane of two regions, its paths in descending order, after get_current
\* with reflect has gone through all twelve paths
C21_Witness ==
    /\ TwentyBinsPerRegion
    /\ ilin.nbins = 40
    /\ plane.reflect
    /\ plane.paths[1] > plane.paths[2]
    /\ npaths = 12
    /\ gcur = Return(<<0, 39>>)
    /\ \A b \in 0..39 : currents[b] = 1
-----------------------------------------------------------------------------
(* neighbors_by_path against walks along the type names.                   *)

\* the end nodes of the walks s, n1, ..., nk in which each ni has type
\* path[i]
RECURSIVE TypedWalk(_, _, _, _)
TypedWalk(g, s, path, k) ==
    IF k = 0 THEN {s}
    ELSE {n \in g.nodes :
             /\ g.type[n] = path[k]
             /\ \E m \in TypedWalk(g, s, path, k - 1) : Linked(g, m, n)}

\* C22: neighbors_by_path(G, seed, typenamepath) returns, for a seed of the
\* graph, exactly the nodes that for some k >= 1 end a walk seed, n1, ..., nk
\* in which each ni has type typenamepath[i-1] (Python index); an empty path
\* gives the empty set; and every call ends, with a set or with a lookup
\* error, on cyclic graphs as on acyclic ones.
C22_PathNeighbors ==
    call.op = "neighbors_by_path" =>
        /\ call.path = <<>> => result = Return({})
        /\ (call.node \in G.nodes /\ call.path # <<>>) =>
               /\ result.ok
               /\ result.val = {n \in G.nodes : \E k \in 1..Len(call.path) :
                                    n \in TypedWalk(G, call.node, call.path, k)}
        /\ result.ok \/ result.exc \in LookupErrors

\* a triangle, so a cyclic graph: from the wire 1 along conductor, wire the
\* path reaches the conductor 2, then the wire 3 and the seed itself
C22_Witness ==
    /\ call.op = "neighbors_by_path"
    /\ call.node = 1
    /\ call.path = <<"conductor", "wire">>
    /\ Edges(G) = {Edge(1, 2), Edge(2, 3), Edge(1, 3)}
    /\ G.type[1] = "wire" /\ G.type[2] = "conductor" /\ G.type[3] = "wire"
    /\ result = Return({1, 2, 3})
-----------------------------------------------------------------------------
(* bee-blobs: what the lists hold after each file.                         *)

\* C23: while bee-blobs goes through the cluster files in command-line
\* order, and in the file it writes at the end, the lists x, y, z and q have
\* the same length, the total number of points sampled from the first graph
\* of each file taken up so far whose undrifted graph has nodes, the points
\* of each file after those of the files before it; the graphs after the
\* first of a file and graphs of no nodes add nothing.
C23_BeeAccumulation ==
    cmd.driver = "bee-blobs" =>
        LET sampled == PointsOf(batch, ntaken) IN
        /\ \A f \in {"x", "y", "z", "q"} : Len(dat[f]) = Len(sampled)
        /\ \A k \in 1..Len(sampled) :
              /\ IsRounded3(dat.x[k], sampled[k][1], cm)
              /\ IsRounded3(dat.q[k], sampled[k][4], 1)
        /\ \A i \in 1..ntaken :
              batch[i].kind = "empty" =>
                  Len(PointsOf(batch, i)) = Len(PointsOf(batch, i - 1))
        /\ status = "done" =>
              \A f \in {"x", "y", "z", "q"} : json[f] = dat[f]

\* two files, each with a second graph of two points: the first graph of the
\* first file has no nodes, that of the second gives two points, and the
\* file written holds those two points only
C23_Witness ==
    /\ cmd.driver = "bee-blobs" /\ status = "done"
    /\ Len(batch) = 2
    /\ batch[1].kind = "empty" /\ Len(batch[1].later) = 1
    /\ batch[2].kind = "ok" /\ Len(batch[2].arr) = 2 /\ Len(batch[2].later) = 1
    /\ Len(json.x) = 2 /\ Len(json.y) = 2 /\ Len(json.z) = 2 /\ Len(json.q) = 2
    /\ RatEq(json.q[2], Rat(4, 1))
-----------------------------------------------------------------------------
(* transform-depos: the entries of the output archive.                     *)

\* C24 as stated: transform-depos takes the input sets in ascending numeric
\* order of their index and keeps only the rows of generation 0, data and
\* info rows aligned; the entries written are depo_data_k.npy and
\* depo_info_k.npy for k = 0..N-1 with no gaps or repeats, N being the
\* number of input sets (twice that with --forward); with --forward the
\* untransformed copy of a set is written immediately before its transformed
\* copy.
C24_OutputNumbering ==
    tstatus # "running" =>
        LET indices == SortedSeq(DOMAIN fp, TRUE)
            copies  == IF topts.forward THEN 2 ELSE 1
            N       == copies * Len(indices)
        IN  /\ Len(zf) = N
            /\ \A i \in 1..N : zf[i].k = i - 1
            /\ \A j \in 1..Len(indices) :
                  LET set  == fp[indices[j]]
                      last == copies * j
                  IN  /\ zf[last].nfo = KeepGeneration(set.nfo, set.nfo, 0)
                      /\ Len(zf[last].dat) = Len(zf[last].nfo)
                      /\ topts.forward =>
                            /\ zf[last - 1].dat = KeepGeneration(set.dat, set.nfo, 0)
                            /\ zf[last - 1].nfo = zf[last].nfo
-----------------------------------------------------------------------------
(* ntier-frames (wirecell/plot/__main__.py).                               *)
(*                                                                         *)
(* A frame file is read through an ario reader: the keys of its arrays in  *)
(* file order, each "<kind>_<name>_<ident>" with kind one of frame,        *)
(* channels, tickinfo.  A key is the record of its three parts; an ident   *)
(* is a string of digits, held as the sequence of its digits.              *)

\* ntier-frames is given from 0 to MaxFiles files
MaxFiles == 3

\* the three arrays of one frame
FrameKeys(tier, ident) ==
    <<[kind |-> "frame", name |-> tier, ident |-> ident],
      [kind |-> "channels", name |-> tier, ident |-> ident],
      [kind |-> "tickinfo", name |-> tier, ident |-> ident]>>

\* the frame files: one tier each with frames "0"; "1"; "0" and "1";
\* "2", "10" and "0"; and a file with no array
FrameFiles ==
    {FrameKeys("gauss", <<0>>),
     FrameKeys("raw", <<1>>),
     FrameKeys("wiener", <<0>>) \o FrameKeys("wiener", <<1>>),
     FrameKeys("orig", <<2>>) \o FrameKeys("orig", <<1, 0>>) \o FrameKeys("orig", <<0>>),
     <<>>}

\* Python's order of strings, on strings of digits
StrLess(a, b) ==
    \E i \in 1..(Len(b)) :
        /\ \A j \in 1..(i - 1) : j <= Len(a) /\ a[j] = b[j]
        /\ \/ i = Len(a) + 1
           \/ i <= Len(a) /\ a[i] < b[i]

\* idents = list(idents); idents.sort()
RECURSIVE sorted_idents(_)
sorted_idents(S) ==
    IF S = {} THEN <<>>
    ELSE LET least == CHOOSE x \in S : \A y \in S \ {x} : StrLess(x, y)
         IN  <<least>> \o sorted_idents(S \ {least})

\* key.split('.',1)[0].split('_')[1:], the second of the two
IdentOf(key) == key.ident

\* ... and the first of the two
NameOf(key) == key.name

InitFrames ==
    /\ readers \in UNION {[1..k -> FrameFiles] : k \in 0..MaxFiles}
    /\ nread = 0
    /\ name = [bound |-> FALSE]
    /\ tiers = <<>>
    /\ idents = {}
    /\ nplot = 0
    /\ pages = <<>>
    /\ fstatus = "reading"
    /\ GraphIdle
    /\ SampleIdle
    /\ DriftIdle
    /\ BatchIdle
    /\ DepoIdle
    /\ TransformIdle
    /\ ImpactIdle
    /\ HashIdle

\* one turn of "for reader in readers": the idents of the reader's keys, the
\* name of its last key taken as its tier (the name of an earlier reader
\* when it has no key, none bound when there is no earlier one), idents
\* replaced when empty and intersected otherwise
ReadKeys ==
    /\ fstatus = "reading" /\ nread < Len(readers)
    /\ LET reader == readers[nread + 1]
           myids  == {IdentOf(reader[i]) : i \in 1..Len(reader)}
           bound  == IF reader = <<>> THEN name
                     ELSE [bound |-> TRUE, val |-> NameOf(reader[Len(reader)])]
       IN  /\ name' = bound
           /\ nread' = nread + 1
           /\ IF ~bound.bound
              THEN /\ fstatus' = "UnboundLocalError"
                   /\ UNCHANGED <<tiers, idents>>
              ELSE /\ tiers' = Append(tiers, bound.val)
                   /\ idents' = IF idents = {} THEN myids ELSE idents \cap myids
                   /\ UNCHANGED fstatus
    /\ UNCHANGED <<readers, nplot, pages,
                   gvars, svars, dvars, bvars, pvars, tvars, ivars, hvars>>

\* after the loop over the readers: the idents as a sorted list
SortIdents ==
    /\ fstatus = "reading" /\ nread = Len(readers)
    /\ idents' = sorted_idents(idents)
    /\ fstatus' = "plotting"
    /\ UNCHANGED <<readers, nread, name, tiers, nplot, pages,
                   gvars, svars, dvars, bvars, pvars, tvars, ivars, hvars>>

\* one turn of "for tier, reader in zip(tiers, readers)" inside
\* "for ident in idents": the frame is looked up in the reader and its figure
\* saved; a reader without it is passed over (KeyError, "continue")
PlotFrame ==
    /\ fstatus = "plotting" /\ nplot < Len(idents) * Len(tiers)
    /\ LET ident  == idents[(nplot \div Len(tiers)) + 1]
           at     == (nplot % Len(tiers)) + 1
           aname  == [kind |-> "frame", name |-> tiers[at], ident |-> ident]
       IN  pages' = IF aname \in Range(readers[at])
                    THEN Append(pages, [tier |-> tiers[at], ident |-> ident, reader |-> at])
                    ELSE pages
    /\ nplot' = nplot + 1
    /\ UNCHANGED <<readers, nread, name, tiers, idents, fstatus,
                   gvars, svars, dvars, bvars, pvars, tvars, ivars, hvars>>

\* the end of "with Outer(output) as out"
PlotDone ==
    /\ fstatus = "plotting" /\ nplot = Len(idents) * Len(tiers)
    /\ fstatus' = "done"
    /\ UNCHANGED <<readers, nread, name, tiers, idents, nplot, pages,
                   gvars, svars, dvars, bvars, pvars, tvars, ivars, hvars>>

NextFrames ==
    \/ ReadKeys
    \/ SortIdents
    \/ PlotFrame
    \/ PlotDone

SpecFrames == InitFrames /\ [][NextFrames]_vars

\* the idents of the frames a file holds
IdentsIn(reader) == {reader[i].ident : i \in 1..Len(reader)}

\* the idents every input file holds
CommonIdents == {id \in UNION {IdentsIn(readers[j]) : j \in 1..Len(readers)} :
                    \A j \in 1..Len(readers) : id \in IdentsIn(readers[j])}

\* C25 as stated: for any number of input frame files, the frame identifiers
\* ntier-frames plots are exactly those present in every input file, visited
\* in sorted order, each plotted once per tier in input-file order.
C25_PlottedAreCommon ==
    fstatus = "done" =>
        LET common == sorted_idents(CommonIdents)
            ntiers == Len(readers)
        IN  /\ Len(pages) = Len(common) * ntiers
            /\ \A a \in 1..Len(common) : \A j \in 1..ntiers :
                  /\ pages[(a - 1) * ntiers + j].ident = common[a]
                  /\ pages[(a - 1) * ntiers + j].reader = j
-----------------------------------------------------------------------------
(* channel_hash and the channel numbers of to_celltree_wires                *)
(* (wirecell/util/wires/graph.py).                                         *)
(*                                                                         *)
(* A formatted string of digits is the sequence of its digits.             *)

\* "%d" % n, for n >= 0
RECURSIVE fmt_d(_)
fmt_d(n) == IF n < 10 THEN <<n>> ELSE fmt_d(n \div 10) \o <<n % 10>>

\* "%02d" % n, for n >= 0: at least two digits, padded with a zero
fmt_02d(n) == IF n < 10 THEN <<0, n>> ELSE fmt_d(n)

\* int() of a string of digits
RECURSIVE int_of(_)
int_of(digits) ==
    IF digits = <<>> THEN 0
    ELSE 10 * int_of(SubSeq(digits, 1, Len(digits) - 1)) + digits[Len(digits)]

\* channel_hash leaving one digit for the address
channel_hash_one_digit_address(iconn, islot, ichip, iaddr) ==
    1000 * (iconn + 1) + 100 * (islot + 1) + 10 * (ichip + 1) + (iaddr + 1)

channel_hash(iconn, islot, ichip, iaddr) ==
    int_of(fmt_d(iconn + 1) \o fmt_d(islot + 1) \o fmt_d(ichip + 1) \o fmt_02d(iaddr + 1))

\* the addresses (iconn, islot, ichip, iaddr) of the channels: connector,
\* slot and chip in 0..8, address in 0..98
ValidAddresses == (0..8) \X (0..8) \X (0..8) \X (0..98)

\* addresses at the ends of the ranges and on both sides of a second digit
AddressSamples == {0, 1, 8} \X {0, 1, 8} \X {0, 1, 8} \X {0, 9, 10, 98}

\* to_celltree_wires, the first column of its rows: the hash of the address
\* of each wire's channel
channel_column(addrs) ==
    [i \in 1..Len(addrs) |->
        channel_hash(addrs[i][1], addrs[i][2], addrs[i][3], addrs[i][4])]

\* a face of one wire with any address, or of two wires with sample
\* addresses, the same or not
InitHash ==
    /\ waddrs \in {<<a>> : a \in ValidAddresses}
                    \cup {<<a, b>> : a \in AddressSamples, b \in AddressSamples}
    /\ ret = NotRun
    /\ GraphIdle
    /\ SampleIdle
    /\ DriftIdle
    /\ BatchIdle
    /\ DepoIdle
    /\ TransformIdle
    /\ ImpactIdle
    /\ FramesIdle

ToCelltreeWires ==
    /\ ret = NotRun
    /\ ret' = Return(channel_column(waddrs))
    /\ UNCHANGED <<waddrs, gvars, svars, dvars, bvars, pvars, tvars, ivars, fvars>>

NextHash == ToCelltreeWires

SpecHash == InitHash /\ [][NextHash]_vars

\* the address read back from the decimal digits of a channel number
AddressOf(ch) ==
    <<(ch \div 10000) - 1, ((ch \div 1000) % 10) - 1, ((ch \div 100) % 10) - 1,
      (ch % 100) - 1>>

\* C26: channel_hash is injective on the addresses with connector, slot and
\* chip in 0..8 and address in 0..98: the address can be read back from the
\* number, and two wires whose channels have different addresses get
\* different channel numbers from to_celltree_wires.
C26_HashInjective ==
    ret.ok =>
        /\ \A i \in 1..Len(waddrs) :
              /\ waddrs[i] \in ValidAddresses
              /\ AddressOf(ret.val[i]) = waddrs[i]
        /\ \A i, j \in 1..Len(waddrs) :
              waddrs[i] # waddrs[j] => ret.val[i] # ret.val[j]

\* two wires whose addresses differ in the chip and in an address of two
\* digits
C26_Witness ==
    /\ waddrs = <<<<0, 0, 0, 10>>, <<0, 0, 1, 0>>>>
    /\ ret = Return(<<11111, 11201>>)
=============================================================================
